---- MODULE Spec2Model ----
(***************************************************************************)
(* State-machine model of the Room session state machine of tr-be          *)
(* (src/unnamed/part_001, lines 1-489: the Room class with durable player  *)
(* ids, mission history and the cumulative rejection rule) together with   *)
(* the constants of src/unnamed/part_006, the GameManager and the          *)
(* HookManager (src/game/GameManager.ts), the ExpansionRegistry and the    *)
(* merlin-assassin expansion (src/unnamed/part_004) and the inquisidor and *)
(* blind-spies expansions (src/unnamed/part_005).                          *)
(*                                                                         *)
(* Every public method of Room is one action.  Room has no phase guards,   *)
(* so every method may be called in every phase.  A method that throws     *)
(* (updateLeader on an empty roster) is modelled with the mutations made   *)
(* before the throw and ret.threw = TRUE.  Connection ids are handed out   *)
(* by the transport layer and are never reused; the wall-clock fields      *)
(* createdAt / lastActivityAt are not modelled.                            *)
(***************************************************************************)
EXTENDS Integers, Sequences, FiniteSets, TLC

(***************************************************************************)
(* Bounds of the model                                                     *)
(***************************************************************************)
MaxConns == 3            \* connection ids the transport hands out per room
MaxHistory == 3          \* resolveMission calls per game
MaxRejectedTallies == 5  \* rejected tallies per game
MaxHooks == 2            \* callbacks registered for one hook
MaxRoster == 5           \* players of a room that is created with its roster
MaxOtherRooms == 2       \* rooms the GameManager created before the room
MaxInvestigations == 3   \* successful investigations per game
MaxResolved == 6         \* resolveMission calls per game, past the end of the game
MaxStartHooks == 3       \* callbacks registered for game:start and for roles:assign

(***************************************************************************)
(* Constants of the program (src/unnamed/part_006)                         *)
(***************************************************************************)
MIN_PLAYERS == 1
MAX_PLAYERS == 20
MAX_REJECTIONS == 5
MISSIONS_TO_SUCCEED == 3
MISSIONS_TO_FAIL == 3

SPY_COUNT ==
  <<0, 1, 1, 1, 2, 2, 3, 3, 3, 4, 4, 4, 5, 5, 5, 6, 6, 6, 7, 7>>

MISSION_CONFIG ==
  << <<1, 1, 1, 1, 1>>, <<1, 2, 1, 2, 2>>, <<2, 2, 2, 2, 2>>,
     <<2, 2, 2, 3, 3>>, <<2, 3, 2, 3, 3>>, <<2, 3, 4, 3, 4>>,
     <<2, 3, 3, 4, 4>>, <<3, 4, 4, 5, 5>>, <<3, 4, 4, 5, 5>>,
     <<3, 4, 4, 5, 5>>, <<3, 4, 4, 5, 5>>, <<3, 4, 4, 5, 5>>,
     <<3, 4, 5, 6, 6>>, <<4, 5, 5, 6, 6>>, <<4, 5, 5, 6, 6>>,
     <<4, 5, 6, 7, 7>>, <<5, 6, 6, 7, 7>>, <<5, 6, 6, 7, 7>>,
     <<6, 7, 7, 8, 8>>, <<6, 7, 7, 8, 8>> >>

(***************************************************************************)
(* Identifiers.  A connection id is the n-th socket id the transport       *)
(* handed out; a durable id supplied by the n-th client is PlayerIdName,   *)
(* and NoPlayerId is the absent (falsy) playerId argument of addPlayer.    *)
(***************************************************************************)
SocketName == <<"s1", "s2", "s3", "s4", "s5">>
PlayerIdName == <<"p1", "p2", "p3", "p4", "p5">>
NoPlayerId == ""
SocketIds == {SocketName[n] : n \in 1..MaxConns}
NaN == -1

VARIABLES
  players,              \* Room.players: sequence of Player records
  minPlayers,           \* Room.minPlayers
  expansions,           \* Room.expansions: the ids of the variants of the room
  hooks,                \* HookManager.hooks: hook name -> callbacks in registration order
  inquisitorState,      \* Room.inquisitorState, set by the inquisidor expansion
  suspended,            \* the call of the room that waits in HookManager.trigger, if any
  phase,                \* Room.phase
  currentLeaderIndex,   \* Room.currentLeaderIndex (0-based, or NaN)
  currentMissionIndex,  \* Room.currentMissionIndex (0-based)
  failedMissions,       \* Room.failedMissions
  succeededMissions,    \* Room.succeededMissions
  missionHistory,       \* Room.missionHistory
  assassinationTarget,  \* Room.assassinationTarget ("" is null)
  selectedTeam,         \* Room.selectedTeam: sequence of durable ids
  votes,                \* Room.votes: Map durable id -> boolean
  voteRejections,       \* Room.voteRejections
  missionActions,       \* Room.missionActions: Map durable id -> boolean
  conns,                \* number of connection ids handed out by the transport
  rejectedTallies,      \* history: rejected tallies since construction / resetGame
  ret                   \* the last operation, its arguments and its result

vars == <<players, minPlayers, expansions, hooks, inquisitorState, suspended, phase, currentLeaderIndex,
          currentMissionIndex, failedMissions, succeededMissions,
          missionHistory, assassinationTarget, selectedTeam, votes,
          voteRejections, missionActions, conns, rejectedTallies, ret>>

(***************************************************************************)
(* Map<string, boolean> as a function on its key set.  The insertion order *)
(* of a JavaScript Map is not modelled.                                    *)
(***************************************************************************)
EmptyMap == [key \in {} |-> TRUE]

MapHas(m, key) == key \in DOMAIN m

MapSet(m, key, val) ==
  [x \in DOMAIN m \cup {key} |-> IF x = key THEN val ELSE m[x]]

MapCount(m, val) == Cardinality({key \in DOMAIN m : m[key] = val})

(***************************************************************************)
(* Roster lookups                                                          *)
(***************************************************************************)
First(S) == CHOOSE i \in S : \A j \in S : i <= j

\* Room.getPlayer: index of the first player with this connection id, 0 if none
getPlayer(id) ==
  LET S == {i \in 1..Len(players) : players[i].id = id}
  IN IF S = {} THEN 0 ELSE First(S)

\* Room.getPlayerByPlayerId: index of the first player with this durable id, 0 if none
getPlayerByPlayerId(playerId) ==
  LET S == {i \in 1..Len(players) : players[i].playerId = playerId}
  IN IF S = {} THEN 0 ELSE First(S)

\* votes and actions keyed by the connection id that submitted them
SocketAsPlayerId(socketId) ==
  IF getPlayer(socketId) = 0 THEN "" ELSE socketId

\* Room.getPlayerIdFromSocket: "" stands for undefined
getPlayerIdFromSocket(socketId) ==
  IF getPlayer(socketId) = 0 THEN "" ELSE players[getPlayer(socketId)].playerId

\* Room.getSocketIdFromPlayerId evaluated on a roster: "" stands for undefined
SocketIdIn(roster, playerId) ==
  LET S == {i \in 1..Len(roster) : roster[i].playerId = playerId}
  IN IF S = {} THEN "" ELSE roster[First(S)].id

getSocketIdFromPlayerId(playerId) == SocketIdIn(players, playerId)

\* the table read one mission ahead
MissionSizeAhead(n, i) ==
  IF n \in 1..Len(MISSION_CONFIG) /\ i \in 0..3 THEN MISSION_CONFIG[n][i + 2] ELSE 0

\* Room.getCurrentMissionSize: missionConfig[n]?.[i] || 0
MissionSize(n, i) ==
  IF n \in 1..Len(MISSION_CONFIG) /\ i \in 0..4 THEN MISSION_CONFIG[n][i + 1] ELSE 0

getCurrentMissionSize == MissionSize(Len(players), currentMissionIndex)

\* the mission counters consulted before the assassination
WinnerByCountersFirst(ph, target, roster, succeeded, failed) ==
  LET M == {i \in 1..Len(roster) : roster[i].specialRole = "MERLIN"}
      merlinId == IF M = {} THEN "" ELSE roster[First(M)].id
  IN IF ph # "GAME_OVER" THEN ""
     ELSE IF succeeded >= MISSIONS_TO_SUCCEED THEN "RESISTANCE"
     ELSE IF failed >= MISSIONS_TO_FAIL THEN "SPY"
     ELSE IF target # "" /\ M # {} /\ target = merlinId THEN "SPY"
     ELSE ""

\* Room.getWinner: "" stands for null
Winner(ph, target, roster, succeeded, failed) ==
  LET M == {i \in 1..Len(roster) : roster[i].specialRole = "MERLIN"}
      merlinId == IF M = {} THEN "" ELSE roster[First(M)].id
  IN IF ph # "GAME_OVER" THEN ""
     ELSE IF target # "" /\ M # {} /\ target = merlinId THEN "SPY"
     ELSE IF succeeded >= MISSIONS_TO_SUCCEED THEN "RESISTANCE"
     ELSE IF failed >= MISSIONS_TO_FAIL THEN "SPY"
     ELSE ""

\* a winner named in every phase
getWinnerInAnyPhase ==
  Winner("GAME_OVER", assassinationTarget, players, succeededMissions, failedMissions)

getWinner ==
  Winner(phase, assassinationTarget, players, succeededMissions, failedMissions)

(***************************************************************************)
(* The HookManager of the room.  A callback is named after the code that   *)
(* registers it: "merlin-assassin" is the callback the merlin-assassin     *)
(* expansion registers for the hook; forceGameOver, forceAssassination and *)
(* customField are the callbacks the test suites register.                 *)
(***************************************************************************)
HookNames ==
  {"game:start", "roles:assign", "mission:resolve", "state:sync", "game:reset",
   "test:hook", "stop:hook"}

NoHooks == [hookName \in HookNames |-> <<>>]

\* MerlinAssassinExpansion.install: one callback for each of three hooks
InstallMerlinAssassin(hk) ==
  [hookName \in HookNames |->
      IF hookName \in {"roles:assign", "mission:resolve", "state:sync"}
      THEN Append(hk[hookName], "merlin-assassin")
      ELSE hk[hookName]]

\* GameManager.createRoom: the variants of the room are installed
InstalledHooks(exps) ==
  IF "merlin-assassin" \in exps THEN InstallMerlinAssassin(NoHooks) ELSE NoHooks

\* BlindSpiesExpansion.install: one callback for state:sync
InstallBlindSpies(hk) ==
  [hk EXCEPT !["state:sync"] = Append(@, "blind-spies")]

\* InquisidorExpansion.install: one callback for each of three hooks
InstallInquisidor(hk) ==
  [hookName \in HookNames |->
      IF hookName \in {"game:start", "mission:resolve", "state:sync"}
      THEN Append(hk[hookName], "inquisidor")
      ELSE hk[hookName]]

\* expansion.install(hookManager) of the expansion with this id; an id that
\* is not in AVAILABLE_EXPANSIONS installs nothing
InstallExpansion(id, hk) ==
  CASE id = "merlin-assassin" -> InstallMerlinAssassin(hk)
    [] id = "blind-spies" -> InstallBlindSpies(hk)
    [] id = "inquisidor" -> InstallInquisidor(hk)
    [] OTHER -> hk

(***************************************************************************)
(* The GameManager: one HookManager and one ExpansionRegistry, shared by   *)
(* the rooms it creates.  gm.hooks is HookManager.hooks and gm.installed   *)
(* is ExpansionRegistry.installed.                                         *)
(***************************************************************************)
AVAILABLE_EXPANSIONS == {"merlin-assassin", "blind-spies", "inquisidor"}

\* new GameManager(): every available expansion is registered, none installed
NewGameManager == [hooks |-> NoHooks, installed |-> {}]

\* ExpansionRegistry.install(expansionId, hookManager): nothing happens for
\* an unknown id and for an id that was installed before
ExpansionRegistryInstall(expansionId, gm) ==
  IF expansionId \notin AVAILABLE_EXPANSIONS \/ expansionId \in gm.installed
  THEN gm
  ELSE [hooks |-> InstallExpansion(expansionId, gm.hooks),
        installed |-> gm.installed \cup {expansionId}]

\* GameManager.installExpansions: expansionIds.forEach, in the order of the list
RECURSIVE installExpansions(_, _)
installExpansions(expansionIds, gm) ==
  IF expansionIds = <<>> THEN gm
  ELSE installExpansions(Tail(expansionIds),
                         ExpansionRegistryInstall(Head(expansionIds), gm))

\* GameManager.createRoom(minPlayers, expansions): the GameManager after the
\* call; the new room is handed this.hookManager
createRoom(expansionIds, gm) ==
  IF Len(expansionIds) > 0 THEN installExpansions(expansionIds, gm) ELSE gm

\* a sequence of createRoom calls
RECURSIVE createRooms(_, _)
createRooms(lists, gm) ==
  IF lists = <<>> THEN gm
  ELSE createRooms(Tail(lists), createRoom(Head(lists), gm))

Registered(hookName, callback) ==
  \E k \in 1..Len(hooks[hookName]) : hooks[hookName][k] = callback

(***************************************************************************)
(* HookManager.trigger on a context { value, stopPropagation }.  The       *)
(* callbacks are the four of the HookManager test suite and two that fail: *)
(* one throws (or rejects), one returns nothing.                           *)
(***************************************************************************)
Undefined == [defined |-> FALSE, value |-> 0, stopPropagation |-> FALSE]

Context(value) == [defined |-> TRUE, value |-> value, stopPropagation |-> FALSE]

TestCallbacks ==
  {"increment", "double", "stop", "overwrite", "throws", "returnsNothing"}

\* callback(result): the context returned, or threw = TRUE.  A callback that
\* reads or writes a property of its argument throws a TypeError when the
\* argument is undefined.
Callback(callback, ctx) ==
  CASE callback = "returnsNothing" -> [threw |-> FALSE, ctx |-> Undefined]
    [] callback = "throws" \/ ~ctx.defined -> [threw |-> TRUE, ctx |-> ctx]
    [] callback = "increment" ->
         [threw |-> FALSE, ctx |-> [ctx EXCEPT !.value = @ + 1]]
    [] callback = "double" ->
         [threw |-> FALSE, ctx |-> [ctx EXCEPT !.value = @ * 2]]
    [] callback = "stop" ->
         [threw |-> FALSE, ctx |-> [ctx EXCEPT !.value = 1, !.stopPropagation = TRUE]]
    [] callback = "overwrite" ->
         [threw |-> FALSE, ctx |-> [ctx EXCEPT !.value = 999]]
    [] OTHER -> [threw |-> FALSE, ctx |-> ctx]

\* result.stopPropagation evaluated and ignored
NeverStops(ctx) == FALSE

\* HookManager.trigger, line 94: result.stopPropagation of a context
StopsPropagation(ctx) == ctx.stopPropagation

\* the result of a callback dropped
KeepResult(result, returned) == result

\* HookManager.trigger, line 91: result = await callback(result)
AssignResult(result, returned) == returned

\* HookManager.trigger, lines 87-104: the loop from the k-th callback on.
\* calls is the record of the invocations made: the callback and the context
\* it received.  A throw of the callback leaves result as it was; a result
\* of undefined is assigned, and reading its stopPropagation throws inside
\* the try block, so the loop goes on with result = undefined.
RECURSIVE TriggerFrom(_, _, _, _)
TriggerFrom(callbacks, k, result, calls) ==
  IF k > Len(callbacks) THEN [ctx |-> result, calls |-> calls]
  ELSE LET out == Callback(callbacks[k], result)
           made == Append(calls, [callback |-> callbacks[k], received |-> result])
           assigned == AssignResult(result, out.ctx)
       IN IF out.threw THEN TriggerFrom(callbacks, k + 1, result, made)
          ELSE IF ~assigned.defined THEN TriggerFrom(callbacks, k + 1, assigned, made)
          ELSE IF StopsPropagation(assigned) THEN [ctx |-> assigned, calls |-> made]
          ELSE TriggerFrom(callbacks, k + 1, assigned, made)

\* HookManager.trigger(hookName, context) on the registered callbacks hk
Trigger(hk, hookName, context) == TriggerFrom(hk[hookName], 1, context, <<>>)

(***************************************************************************)
(* Room.inquisitorState: undefined until the game:start callback of the    *)
(* inquisidor expansion sets it ("" stands for null)                       *)
(***************************************************************************)
NoInquisitorState ==
  [defined |-> FALSE, tokenHolder |-> "", lastInvestigated |-> "",
   investigationHistory |-> <<>>]

\* a game:start callback that marks the first player as investigated
InquisidorStartMarked(roster) ==
  {[defined |-> TRUE, tokenHolder |-> roster[k].playerId,
    lastInvestigated |-> roster[1].playerId,
    investigationHistory |-> <<>>] : k \in 1..Len(roster)}

\* game:start callback of the inquisidor expansion: a random player of the
\* roster holds the token, nobody was investigated
InquisidorGameStart(roster) ==
  {[defined |-> TRUE, tokenHolder |-> roster[k].playerId, lastInvestigated |-> "",
    investigationHistory |-> <<>>] : k \in 1..Len(roster)}

\* hookManager.trigger('game:start', { room }): the inquisitorState of the
\* room after the pipeline.  On an empty roster the callback throws, the
\* pipeline swallows it and the state stays.
GameStartHook(callbacks, roster, state) ==
  IF roster # <<>> /\ \E k \in 1..Len(callbacks) : callbacks[k] = "inquisidor"
  THEN InquisidorGameStart(roster)
  ELSE {state}

(***************************************************************************)
(* What a game:reset callback that looks at the room it is handed sees:    *)
(* the counters and the roles of the roster at the time it runs.           *)
(***************************************************************************)
NotCalled == [called |-> FALSE]

\* Room.resetGame, line 466: hookManager.trigger('game:reset', { room: this })
\* runs after the fields are reset and before startGame
SeenAtReset(callbacks, roster) ==
  IF \E k \in 1..Len(callbacks) : callbacks[k] = "observer"
  THEN [called |-> TRUE,
        roles |-> {roster[i].role : i \in 1..Len(roster)},
        leaders |-> {i \in 1..Len(roster) : roster[i].isLeader}]
  ELSE NotCalled

(***************************************************************************)
(* What the inquisitor:investigate handler emits: the investigation result *)
(* to the socket of the caller, and inquisitor:token-passed to the room.   *)
(***************************************************************************)
NoReveal == [to |-> "", targetId |-> "", role |-> "", specialRole |-> ""]

NoBroadcast == [newTokenHolder |-> "", investigatedPlayer |-> ""]

(***************************************************************************)
(* A call of an async method of the room that has reached an await on      *)
(* HookManager.trigger and has not returned yet.  hook is the pipeline the *)
(* call started, done the number of its callbacks that have completed,     *)
(* waits tells whether the call resumes only after the pipeline drained,   *)
(* nextPhase is the nextPhase of the context the pipeline works on and     *)
(* tentative the local nextPhase of resolveMission, events is the order in *)
(* which the steps of the call took place, before the view of the first    *)
(* player when the call was made and seen the views handed to that player  *)
(* while the call waits.                                                   *)
(***************************************************************************)
NotSuspended ==
  [op |-> "none", hook |-> "", done |-> 0, waits |-> FALSE, delivered |-> FALSE,
   nextPhase |-> "", tentative |-> "", result |-> [op |-> "none"],
   events |-> <<>>, before |-> [found |-> FALSE], seen |-> {}]

(***************************************************************************)
(* The result record of the last operation                                 *)
(***************************************************************************)
NoRet ==
  [op |-> "new", threw |-> FALSE, ok |-> FALSE, args |-> <<>>,
   approveCount |-> 0, rejectCount |-> 0, penaltyApplied |-> FALSE,
   failCount |-> 0, votes |-> EmptyMap, value |-> 0,
   view |-> [found |-> FALSE],
   context |-> Undefined, ctx |-> Undefined, calls |-> <<>>,
   seen |-> NotCalled, revealed |-> NoReveal, broadcast |-> NoBroadcast]

Ret(op, ok, args) == [NoRet EXCEPT !.op = op, !.ok = ok, !.args = args]

Init ==
  /\ players = <<>>
  /\ minPlayers \in {MIN_PLAYERS, 2}
  /\ expansions \in {{}, {"merlin-assassin"}}
  /\ hooks = InstalledHooks(expansions)
  /\ inquisitorState = NoInquisitorState
  /\ suspended = NotSuspended
  /\ phase = "LOBBY"
  /\ currentLeaderIndex = 0
  /\ currentMissionIndex = 0
  /\ failedMissions = 0
  /\ succeededMissions = 0
  /\ missionHistory = <<>>
  /\ assassinationTarget = ""
  /\ selectedTeam = <<>>
  /\ votes = EmptyMap
  /\ voteRejections = 0
  /\ missionActions = EmptyMap
  /\ conns = 0
  /\ rejectedTallies = 0
  /\ ret = NoRet

(***************************************************************************)
(* Roster operations                                                       *)
(***************************************************************************)
\* Room.addPlayer(id, nickname, playerId?)
addPlayer(id, playerId) ==
  /\ players' = Append(players,
        [id |-> id,
         playerId |-> IF playerId = NoPlayerId THEN id ELSE playerId,
         role |-> "undefined", specialRole |-> "undefined", isLeader |-> FALSE])
  /\ ret' = Ret("addPlayer", TRUE, <<id, playerId>>)
  /\ UNCHANGED <<minPlayers, suspended, expansions, hooks, inquisitorState, phase, currentLeaderIndex,
                 currentMissionIndex, failedMissions, succeededMissions,
                 missionHistory, assassinationTarget, selectedTeam, votes,
                 voteRejections, missionActions, rejectedTallies>>

\* Room.removePlayer(id)
removePlayer(id) ==
  /\ players' = SelectSeq(players, LAMBDA p : p.id # id)
  /\ ret' = Ret("removePlayer", TRUE, <<id>>)
  /\ UNCHANGED <<minPlayers, suspended, expansions, hooks, inquisitorState, phase, currentLeaderIndex,
                 currentMissionIndex, failedMissions, succeededMissions,
                 missionHistory, assassinationTarget, selectedTeam, votes,
                 voteRejections, missionActions, conns, rejectedTallies>>

\* Room.reconnectPlayer(playerId, newSocketId)
reconnectPlayer(playerId, newSocketId) ==
  LET i == getPlayerByPlayerId(playerId) IN
  /\ IF i # 0
     THEN /\ players' = [players EXCEPT ![i].id = newSocketId]
          /\ ret' = Ret("reconnectPlayer", TRUE, <<playerId, newSocketId>>)
     ELSE /\ players' = players
          /\ ret' = Ret("reconnectPlayer", FALSE, <<playerId, newSocketId>>)
  /\ UNCHANGED <<minPlayers, suspended, expansions, hooks, inquisitorState, phase, currentLeaderIndex,
                 currentMissionIndex, failedMissions, succeededMissions,
                 missionHistory, assassinationTarget, selectedTeam, votes,
                 voteRejections, missionActions, rejectedTallies>>

(***************************************************************************)
(* Leadership                                                              *)
(***************************************************************************)
\* Room.updateLeader, first statement: every isLeader flag is cleared
ClearLeader(roster) ==
  [i \in 1..Len(roster) |-> [roster[i] EXCEPT !.isLeader = FALSE]]

\* the flag of the new leader set, the flags of the others left as they are
SetLeaderOnly(roster, index) ==
  [i \in 1..Len(roster) |->
      [roster[i] EXCEPT !.isLeader = (i = index + 1) \/ roster[i].isLeader]]

\* Room.updateLeader, both statements (players[index] exists)
UpdateLeader(roster, index) ==
  [i \in 1..Len(roster) |-> [roster[i] EXCEPT !.isLeader = (i = index + 1)]]

\* Room.updateLeader throws a TypeError when players[index] is undefined
UpdateLeaderThrows(roster, index) == index = NaN \/ index >= Len(roster)

\* a turn that keeps the leader
SameLeaderIndex(index, n) ==
  IF n = 0 \/ index = NaN THEN NaN ELSE index % n

\* Room.nextTurn, first statement: (currentLeaderIndex + 1) % players.length
NextLeaderIndex(index, n) ==
  IF n = 0 \/ index = NaN THEN NaN ELSE (index + 1) % n

(***************************************************************************)
(* Role assignment                                                         *)
(***************************************************************************)
\* SPY_COUNT[playerCount] || Math.ceil(playerCount / 3)
SpyCount(n) ==
  IF n \in 1..Len(SPY_COUNT) /\ SPY_COUNT[n] # 0
  THEN SPY_COUNT[n]
  ELSE (n + 2) \div 3

\* Room.assignRoles before the hook: the first spyCount players of a random
\* permutation become SPY, every specialRole becomes null
BaseRoles(roster) ==
  LET n == Len(roster)
      k == IF SpyCount(n) < n THEN SpyCount(n) ELSE n
  IN { [i \in 1..n |-> [roster[i] EXCEPT
            !.role = IF i \in S THEN "SPY" ELSE "RESISTANCE",
            !.specialRole = "null"]]
       : S \in {T \in SUBSET (1..n) : Cardinality(T) = k} }

\* roles:assign callback of the merlin-assassin expansion
MerlinAssassinRoles(roster) ==
  LET n == Len(roster)
      R == {i \in 1..n : roster[i].role = "RESISTANCE"}
      S == {i \in 1..n : roster[i].role = "SPY"}
      Pick(X) == IF X = {} THEN {0} ELSE X
  IN { [i \in 1..n |-> [roster[i] EXCEPT
            !.specialRole = IF i = a THEN "ASSASSIN"
                            ELSE IF i = m THEN "MERLIN" ELSE @]]
       : m \in Pick(R), a \in Pick(S) }

\* one callback of the roles:assign pipeline
RolesAssignCallback(callback, roster) ==
  IF callback = "merlin-assassin" THEN MerlinAssassinRoles(roster) ELSE {roster}

\* hookManager.trigger('roles:assign', ...): the callbacks in registration order
RECURSIVE TriggerRolesAssign(_, _)
TriggerRolesAssign(callbacks, rosters) ==
  IF callbacks = <<>> THEN rosters
  ELSE TriggerRolesAssign(Tail(callbacks),
          UNION {RolesAssignCallback(Head(callbacks), r) : r \in rosters})

\* Room.assignRoles: base roles, then the roles:assign pipeline
assignRoles(roster, callbacks) == TriggerRolesAssign(callbacks, BaseRoles(roster))

\* Room.startGame()
startGame ==
  /\ IF Len(players) < minPlayers
     THEN /\ ret' = Ret("startGame", FALSE, <<>>)
          /\ UNCHANGED <<players, phase, currentLeaderIndex, inquisitorState>>
     ELSE \E started \in GameStartHook(hooks["game:start"], players, inquisitorState),
             assigned \in assignRoles(players, hooks["roles:assign"]),
             leader \in 0..(Len(players) - 1) :
          /\ inquisitorState' = started
          /\ players' = UpdateLeader(assigned, leader)
          /\ phase' = "TEAM_SELECTION"
          /\ currentLeaderIndex' = leader
          /\ ret' = Ret("startGame", TRUE, <<>>)
  /\ UNCHANGED <<minPlayers, suspended, expansions, hooks, currentMissionIndex, failedMissions,
                 succeededMissions, missionHistory, assassinationTarget,
                 selectedTeam, votes, voteRejections, missionActions, conns,
                 rejectedTallies>>

(***************************************************************************)
(* Team proposal and vote                                                  *)
(***************************************************************************)
\* the team stored as the connection ids it was proposed with
TeamSocketIds(roster, socketIds) == socketIds

\* Room.selectTeam, lines 194-200: the durable ids of the proposed players
TeamPlayerIds(roster, socketIds) ==
  [k \in 1..Len(socketIds) |->
      roster[First({i \in 1..Len(roster) : roster[i].id = socketIds[k]})].playerId]

\* Room.selectTeam(socketIds)
selectTeam(socketIds) ==
  LET requiredSize == getCurrentMissionSize
      valid == /\ Len(socketIds) = requiredSize
               /\ \A k \in 1..Len(socketIds) : getPlayer(socketIds[k]) # 0
  IN
  /\ IF valid
     THEN /\ selectedTeam' = TeamPlayerIds(players, socketIds)
          /\ phase' = "VOTE"
          /\ ret' = Ret("selectTeam", TRUE, socketIds)
     ELSE /\ ret' = Ret("selectTeam", FALSE, socketIds)
          /\ UNCHANGED <<selectedTeam, phase>>
  /\ UNCHANGED <<players, minPlayers, suspended, expansions, hooks, inquisitorState, currentLeaderIndex,
                 currentMissionIndex, failedMissions, succeededMissions,
                 missionHistory, assassinationTarget, votes, voteRejections,
                 missionActions, conns, rejectedTallies>>

\* Room.submitVote(socketId, approve)
submitVote(socketId, approve) ==
  LET playerId == getPlayerIdFromSocket(socketId) IN
  /\ votes' = IF playerId = "" THEN votes ELSE MapSet(votes, playerId, approve)
  /\ ret' = Ret("submitVote", approve, <<socketId>>)
  /\ UNCHANGED <<players, minPlayers, suspended, expansions, hooks, inquisitorState, phase, currentLeaderIndex,
                 currentMissionIndex, failedMissions, succeededMissions,
                 missionHistory, assassinationTarget, selectedTeam,
                 voteRejections, missionActions, conns, rejectedTallies>>

\* a vote that approves on a tie
ApprovedOnTie(approveCount, rejectCount) == approveCount >= rejectCount

\* Room.tallyVotes, line 228: approveCount > rejectCount
Approved(approveCount, rejectCount) == approveCount > rejectCount

\* a penalty that waits for one rejection more
PenaltyDueLate(streak) == streak > MAX_REJECTIONS

\* Room.tallyVotes, line 235: voteRejections >= MAX_REJECTIONS
PenaltyDue(streak) == streak >= MAX_REJECTIONS

\* an approval that clears the streak
StreakReset(streak) == 0

\* Room.tallyVotes, lines 244-247: an approval leaves voteRejections alone
StreakAfterApproval(streak) == streak

\* Room.tallyVotes()
tallyVotes ==
  LET approveCount == MapCount(votes, TRUE)
      rejectCount == MapCount(votes, FALSE)
      approved == Approved(approveCount, rejectCount)
      result == [Ret("tallyVotes", approved, <<>>) EXCEPT
                    !.approveCount = approveCount, !.rejectCount = rejectCount]
      next == NextLeaderIndex(currentLeaderIndex, Len(players))
  IN
  /\ rejectedTallies' = IF approved THEN rejectedTallies ELSE rejectedTallies + 1
  /\ IF ~approved
     THEN IF PenaltyDue(voteRejections + 1)
          THEN /\ failedMissions' = MISSIONS_TO_FAIL
               /\ phase' = "GAME_OVER"
               /\ voteRejections' = 0
               /\ votes' = EmptyMap
               /\ ret' = [result EXCEPT !.penaltyApplied = TRUE]
               /\ UNCHANGED <<players, currentLeaderIndex, selectedTeam>>
          ELSE /\ voteRejections' = voteRejections + 1
               /\ currentLeaderIndex' = next
               /\ IF UpdateLeaderThrows(players, next)
                  THEN /\ players' = ClearLeader(players)
                       /\ ret' = [result EXCEPT !.threw = TRUE]
                       /\ UNCHANGED <<phase, selectedTeam, votes>>
                  ELSE /\ players' = UpdateLeader(players, next)
                       /\ phase' = "TEAM_SELECTION"
                       /\ selectedTeam' = <<>>
                       /\ votes' = EmptyMap
                       /\ ret' = result
               /\ UNCHANGED failedMissions
     ELSE /\ phase' = "MISSION"
          /\ voteRejections' = StreakAfterApproval(voteRejections)
          /\ votes' = EmptyMap
          /\ ret' = result
          /\ UNCHANGED <<players, currentLeaderIndex, selectedTeam,
                         failedMissions>>
  /\ UNCHANGED <<minPlayers, suspended, expansions, hooks, inquisitorState, currentMissionIndex,
                 succeededMissions, missionHistory, assassinationTarget,
                 missionActions, conns>>

(***************************************************************************)
(* Mission                                                                 *)
(***************************************************************************)
\* an action accepted from any roster member
AnyPlayer(team, playerId) == TRUE

\* Room.submitMissionAction, line 265: selectedTeam.includes(playerId)
InSelectedTeam(team, playerId) ==
  \E k \in 1..Len(team) : team[k] = playerId

\* a boolean argument as it is kept in the record of the call
BoolName(b) == IF b THEN "true" ELSE "false"

\* Room.submitMissionAction(socketId, success)
submitMissionAction(socketId, success) ==
  LET playerId == getPlayerIdFromSocket(socketId)
      member == playerId # "" /\ InSelectedTeam(selectedTeam, playerId)
  IN
  /\ IF member
     THEN /\ missionActions' = MapSet(missionActions, playerId, success)
          /\ ret' = Ret("submitMissionAction", TRUE, <<socketId, BoolName(success)>>)
     ELSE /\ missionActions' = missionActions
          /\ ret' = Ret("submitMissionAction", FALSE, <<socketId, BoolName(success)>>)
  /\ UNCHANGED <<players, minPlayers, suspended, expansions, hooks, inquisitorState, phase, currentLeaderIndex,
                 currentMissionIndex, failedMissions, succeededMissions,
                 missionHistory, assassinationTarget, selectedTeam, votes,
                 voteRejections, conns, rejectedTallies>>

\* the key of a recorded action without the fall-back to the durable id
CurrentSocketIdOnly(roster, playerId) == SocketIdIn(roster, playerId)

\* Room.resolveMission, lines 293-302: the key under which a recorded action
\* is returned: the current connection id, or the durable id when the player
\* is no longer in the roster
ReturnedKey(roster, playerId) ==
  IF SocketIdIn(roster, playerId) # "" THEN SocketIdIn(roster, playerId)
  ELSE playerId

\* Room.resolveMission, lines 293-302: the returned Map.  Two recorded actions
\* whose keys collide leave one entry (which of the two values it holds
\* depends on the insertion order, which is not modelled).
VotesSocketIds(actions, roster) ==
  [key \in {ReturnedKey(roster, p) : p \in DOMAIN actions} |->
      actions[CHOOSE p \in DOMAIN actions : ReturnedKey(roster, p) = key]]

\* mission:resolve callback of the merlin-assassin expansion
MerlinAssassinResolve(succeeded, nextPhase) ==
  IF succeeded >= 3 /\ nextPhase = "GAME_OVER" THEN "ASSASSINATION" ELSE nextPhase

\* a callback that leaves the phase to the room
InquisidorIdle(nextPhase) == nextPhase

\* mission:resolve callback of the inquisidor expansion
InquisidorResolve(nextPhase) ==
  IF nextPhase # "GAME_OVER" /\ nextPhase # "ASSASSINATION"
  THEN "INQUISITOR_INVESTIGATION"
  ELSE nextPhase

\* one callback of the mission:resolve pipeline: the nextPhase of the context
\* it returns
MissionResolveCallback(callback, succeeded, nextPhase) ==
  CASE callback = "merlin-assassin" -> MerlinAssassinResolve(succeeded, nextPhase)
    [] callback = "forceGameOver" -> "GAME_OVER"
    [] callback = "forceAssassination" -> "ASSASSINATION"
    [] callback = "inquisidor" -> InquisidorResolve(nextPhase)
    [] OTHER -> nextPhase

\* hookManager.trigger('mission:resolve', ...).nextPhase: every callback gets
\* the context the previous one returned
RECURSIVE MissionResolveHook(_, _, _)
MissionResolveHook(callbacks, succeeded, nextPhase) ==
  IF callbacks = <<>> THEN nextPhase
  ELSE MissionResolveHook(Tail(callbacks), succeeded,
          MissionResolveCallback(Head(callbacks), succeeded, nextPhase))

\* the phase of the hook result dropped
TentativePhase(hookPhase, nextPhase) == nextPhase

\* Room.resolveMission, lines 328-333: the phase of the hook result, if any
AppliedPhase(hookPhase, nextPhase) ==
  IF hookPhase # "" THEN hookPhase ELSE nextPhase

\* Room.resolveMission()
resolveMission ==
  LET failCount == MapCount(missionActions, FALSE)
      success == failCount = 0
      succeeded == IF success THEN succeededMissions + 1 ELSE succeededMissions
      failed == IF success THEN failedMissions ELSE failedMissions + 1
      over == failed >= MISSIONS_TO_FAIL \/ succeeded >= MISSIONS_TO_SUCCEED
      nextPhase == IF over THEN "GAME_OVER" ELSE "TEAM_SELECTION"
      finalPhase == AppliedPhase(
                      MissionResolveHook(hooks["mission:resolve"], succeeded, nextPhase),
                      nextPhase)
      next == NextLeaderIndex(currentLeaderIndex, Len(players))
      result == [Ret("resolveMission", success, <<>>) EXCEPT
                    !.failCount = failCount,
                    !.votes = VotesSocketIds(missionActions, players)]
  IN
  /\ succeededMissions' = succeeded
  /\ failedMissions' = failed
  /\ missionHistory' = Append(missionHistory,
                              [success |-> success, failCount |-> failCount])
  /\ missionActions' = EmptyMap
  /\ currentMissionIndex' = IF over THEN currentMissionIndex
                            ELSE currentMissionIndex + 1
  /\ phase' = finalPhase
  /\ IF finalPhase = "TEAM_SELECTION"
     THEN /\ currentLeaderIndex' = next
          /\ IF UpdateLeaderThrows(players, next)
             THEN /\ players' = ClearLeader(players)
                  /\ ret' = [result EXCEPT !.threw = TRUE]
                  /\ UNCHANGED <<selectedTeam, votes>>
             ELSE /\ players' = UpdateLeader(players, next)
                  /\ selectedTeam' = <<>>
                  /\ votes' = EmptyMap
                  /\ ret' = result
     ELSE /\ ret' = result
          /\ UNCHANGED <<players, currentLeaderIndex, selectedTeam, votes>>
  /\ UNCHANGED <<minPlayers, suspended, expansions, hooks, inquisitorState, assassinationTarget, voteRejections,
                 conns, rejectedTallies>>

\* Room.handleAssassination(targetId)
handleAssassination(targetId) ==
  LET M == {i \in 1..Len(players) : players[i].specialRole = "MERLIN"}
      merlinId == IF M = {} THEN "" ELSE players[First(M)].id
  IN
  /\ assassinationTarget' = targetId
  /\ phase' = "GAME_OVER"
  /\ ret' = Ret("handleAssassination", targetId = merlinId, <<targetId, merlinId>>)
  /\ UNCHANGED <<players, minPlayers, suspended, expansions, hooks, inquisitorState, currentLeaderIndex,
                 currentMissionIndex, failedMissions, succeededMissions,
                 missionHistory, selectedTeam, votes, voteRejections,
                 missionActions, conns, rejectedTallies>>

\* Room.resetGame()
resetGame ==
  LET stripped == [i \in 1..Len(players) |-> [players[i] EXCEPT
                      !.isLeader = FALSE, !.role = "undefined",
                      !.specialRole = "undefined"]]
      seen == SeenAtReset(hooks["game:reset"], stripped)
  IN
  /\ currentMissionIndex' = 0
  /\ failedMissions' = 0
  /\ succeededMissions' = 0
  /\ missionHistory' = <<>>
  /\ voteRejections' = 0
  /\ selectedTeam' = <<>>
  /\ votes' = EmptyMap
  /\ missionActions' = EmptyMap
  /\ assassinationTarget' = ""
  /\ rejectedTallies' = 0
  /\ phase' = "TEAM_SELECTION"
  /\ IF Len(players) < minPlayers
     THEN /\ players' = stripped
          /\ ret' = [Ret("resetGame", FALSE, <<>>) EXCEPT !.seen = seen]
          /\ UNCHANGED <<currentLeaderIndex, inquisitorState>>
     ELSE \E started \in GameStartHook(hooks["game:start"], stripped, inquisitorState),
             assigned \in assignRoles(stripped, hooks["roles:assign"]),
             leader \in 0..(Len(players) - 1) :
          /\ inquisitorState' = started
          /\ players' = UpdateLeader(assigned, leader)
          /\ currentLeaderIndex' = leader
          /\ ret' = [Ret("resetGame", TRUE, <<>>) EXCEPT !.seen = seen]
  /\ UNCHANGED <<minPlayers, suspended, expansions, hooks, conns>>

\* a call of Room.getWinner()
winnerQuery ==
  /\ ret' = Ret("getWinner", TRUE, <<getWinner>>)
  /\ UNCHANGED <<players, minPlayers, suspended, expansions, hooks, inquisitorState, phase, currentLeaderIndex,
                 currentMissionIndex, failedMissions, succeededMissions,
                 missionHistory, assassinationTarget, selectedTeam, votes,
                 voteRejections, missionActions, conns, rejectedTallies>>

\* a call of Room.getCurrentMissionSize()
missionSizeQuery ==
  /\ ret' = [Ret("getCurrentMissionSize", TRUE, <<>>) EXCEPT
                !.value = getCurrentMissionSize]
  /\ UNCHANGED <<players, minPlayers, suspended, expansions, hooks, inquisitorState, phase, currentLeaderIndex,
                 currentMissionIndex, failedMissions, succeededMissions,
                 missionHistory, assassinationTarget, selectedTeam, votes,
                 voteRejections, missionActions, conns, rejectedTallies>>

(***************************************************************************)
(* The inquisidor expansion                                                *)
(***************************************************************************)
\* an investigation open to every player of the roster
AnyInvestigator(state, investigator) == TRUE

\* inquisitor:investigate, line 262: the caller holds the token (durable ids)
HoldsToken(state, investigator) == state.tokenHolder = investigator.playerId

\* InquisidorExpansion.registerSocketHandlers, inquisitor:investigate sent by
\* the socket socketId with { targetId }
investigate(socketId, targetId) ==
  LET i == getPlayer(socketId)
      t == getPlayer(targetId)
      accepted == /\ inquisitorState.defined
                  /\ i # 0
                  /\ HoldsToken(inquisitorState, players[i])
                  /\ t # 0
                  /\ players[t].playerId # players[i].playerId
                  /\ inquisitorState.lastInvestigated # players[t].playerId
  IN
  /\ IF accepted
     THEN /\ inquisitorState' =
               [inquisitorState EXCEPT
                  !.tokenHolder = players[t].playerId,
                  !.lastInvestigated = players[t].playerId,
                  !.investigationHistory =
                     Append(@, [investigator |-> players[i].playerId,
                                target |-> players[t].playerId])]
          /\ ret' = [Ret("investigate", TRUE, <<socketId, targetId>>) EXCEPT
                       !.revealed = [to |-> socketId, targetId |-> players[t].id,
                                     role |-> players[t].role,
                                     specialRole |-> players[t].specialRole],
                       !.broadcast = [newTokenHolder |-> players[t].id,
                                      investigatedPlayer |-> players[t].id]]
     ELSE /\ inquisitorState' = inquisitorState
          /\ ret' = Ret("investigate", FALSE, <<socketId, targetId>>)
  /\ UNCHANGED <<players, minPlayers, suspended, expansions, hooks, phase, currentLeaderIndex,
                 currentMissionIndex, failedMissions, succeededMissions,
                 missionHistory, assassinationTarget, selectedTeam, votes,
                 voteRejections, missionActions, conns, rejectedTallies>>

\* InquisidorExpansion.registerSocketHandlers, inquisitor:end-investigation:
\* outside the investigation phase nothing happens; in it the game ends when
\* a counter reached 3, and otherwise Room.nextTurn is called, which throws
\* on an empty roster before it sets the phase
endInvestigation ==
  LET next == NextLeaderIndex(currentLeaderIndex, Len(players)) IN
  /\ IF phase # "INQUISITOR_INVESTIGATION"
     THEN /\ ret' = Ret("endInvestigation", FALSE, <<>>)
          /\ UNCHANGED <<players, phase, currentLeaderIndex, selectedTeam, votes>>
     ELSE IF succeededMissions >= 3 \/ failedMissions >= 3
     THEN /\ phase' = "GAME_OVER"
          /\ ret' = Ret("endInvestigation", TRUE, <<>>)
          /\ UNCHANGED <<players, currentLeaderIndex, selectedTeam, votes>>
     ELSE /\ currentLeaderIndex' = next
          /\ IF UpdateLeaderThrows(players, next)
             THEN /\ players' = ClearLeader(players)
                  /\ ret' = [Ret("endInvestigation", TRUE, <<>>) EXCEPT !.threw = TRUE]
                  /\ UNCHANGED <<phase, selectedTeam, votes>>
             ELSE /\ players' = UpdateLeader(players, next)
                  /\ phase' = "TEAM_SELECTION"
                  /\ selectedTeam' = <<>>
                  /\ votes' = EmptyMap
                  /\ ret' = Ret("endInvestigation", TRUE, <<>>)
  /\ UNCHANGED <<minPlayers, suspended, expansions, hooks, inquisitorState, currentMissionIndex,
                 failedMissions, succeededMissions, missionHistory,
                 assassinationTarget, voteRejections, missionActions, conns,
                 rejectedTallies>>

(***************************************************************************)
(* Hook registration                                                       *)
(***************************************************************************)
\* HookManager.register(hookName, callback)
register(hookName, callback) ==
  /\ hooks' = [hooks EXCEPT ![hookName] = Append(@, callback)]
  /\ ret' = Ret("register", TRUE, <<hookName, callback>>)
  /\ UNCHANGED <<players, minPlayers, suspended, expansions, inquisitorState, phase, currentLeaderIndex,
                 currentMissionIndex, failedMissions, succeededMissions,
                 missionHistory, assassinationTarget, selectedTeam, votes,
                 voteRejections, missionActions, conns, rejectedTallies>>

\* HookManager.trigger(hookName, context), called on its own
trigger(hookName, context) ==
  LET result == Trigger(hooks, hookName, context) IN
  /\ ret' = [Ret("trigger", result.ctx.defined, <<hookName>>) EXCEPT
                !.context = context, !.ctx = result.ctx, !.calls = result.calls]
  /\ UNCHANGED <<players, minPlayers, suspended, expansions, hooks, inquisitorState, phase, currentLeaderIndex,
                 currentMissionIndex, failedMissions, succeededMissions,
                 missionHistory, assassinationTarget, selectedTeam, votes,
                 voteRejections, missionActions, conns, rejectedTallies>>

(***************************************************************************)
(* The per-player view                                                     *)
(***************************************************************************)
\* Room.getSelectedTeamSocketIds: selectedTeam mapped to connection ids, the
\* members without a roster entry dropped
getSelectedTeamSocketIds ==
  LET mapped == [k \in 1..Len(selectedTeam) |-> getSocketIdFromPlayerId(selectedTeam[k])]
  IN SelectSeq(mapped, LAMBDA sid : sid # "")

\* the recorded keys handed to the client as they are
RecordedKeys(keys, roster) == keys

\* Room.getGameState, lines 380-387: the connection ids of the recorded
\* durable ids, the ones without a roster entry dropped (as a set)
SubmittedSocketIds(keys, roster) ==
  {SocketIdIn(roster, key) : key \in keys} \ {""}

\* Map.get(key) || null, as the client sees it
GetOrNull(m, key) == IF MapHas(m, key) /\ m[key] THEN "true" ELSE "null"

\* the ids of the spies
SpiesList == {players[i].id : i \in {j \in 1..Len(players) : players[j].role = "SPY"}}

\* spies: undefined, and spies: the list of the spies
NoSpiesField == [defined |-> FALSE, ids |-> {}]

SpiesField == [defined |-> TRUE, ids |-> SpiesList]

\* Room.getGameState, lines 368-371: the spies see the spies
SpiesVisible(viewer) ==
  IF viewer.role = "SPY" THEN SpiesField ELSE NoSpiesField

\* state:sync callback of the merlin-assassin expansion: Merlin sees the spies
MerlinAssassinSync(viewer, spies) ==
  IF viewer.specialRole = "MERLIN" THEN SpiesField ELSE spies

\* the field stripped from every view
BlindEveryone(viewer, spies) == NoSpiesField

\* state:sync callback of the blind-spies expansion: the field is stripped
\* from the view of a spy that is not Merlin
BlindSpiesSync(viewer, spies) ==
  IF viewer.role = "SPY" /\ viewer.specialRole # "MERLIN" THEN NoSpiesField
  ELSE spies

\* one callback of the state:sync pipeline: the spies field of the state of
\* the context it returns
StateSyncCallback(callback, viewer, spies) ==
  CASE callback = "merlin-assassin" -> MerlinAssassinSync(viewer, spies)
    [] callback = "blind-spies" -> BlindSpiesSync(viewer, spies)
    [] OTHER -> spies

\* hookManager.trigger('state:sync', ...).state.spies: every callback gets
\* the context the previous one returned
RECURSIVE StateSyncSpies(_, _, _)
StateSyncSpies(callbacks, viewer, spies) ==
  IF callbacks = <<>> THEN spies
  ELSE StateSyncSpies(Tail(callbacks), viewer,
          StateSyncCallback(Head(callbacks), viewer, spies))

\* only the keys recorded with the value true
TrueKeys(m) == {key \in DOMAIN m : m[key]}

\* Array.from(map.keys())
SubmittedKeys(m) == DOMAIN m

\* the view returned as it was before the state:sync pipeline
NoCustomField(callbacks) == FALSE

\* the state:sync callback of the test suite adds a field of its own; the
\* view returned is the state of the pipeline's result (hookResult.state)
CustomField(callbacks) ==
  \E k \in 1..Len(callbacks) : callbacks[k] = "customField"

\* Room.getGameState(requestingPlayerId) in a room with the votes vts and the
\* mission actions acts, the state:sync callbacks included; found = FALSE
\* stands for null
GameState(requestingPlayerId, vts, acts) ==
  LET i == getPlayerByPlayerId(requestingPlayerId)
      A == {j \in 1..Len(players) : players[j].specialRole = "ASSASSIN"}
      spies == StateSyncSpies(hooks["state:sync"], players[i], SpiesVisible(players[i]))
  IN IF i = 0 THEN [found |-> FALSE]
     ELSE [found |-> TRUE,
           player |-> [id |-> players[i].id, playerId |-> players[i].playerId,
                       isLeader |-> players[i].isLeader],
           minPlayers |-> minPlayers,
           expansions |-> expansions,
           gameStarted |-> phase # "LOBBY",
           phase |-> phase,
           players |-> [j \in 1..Len(players) |->
                          [id |-> players[j].id, playerId |-> players[j].playerId,
                           isLeader |-> players[j].isLeader]],
           currentLeader |-> IF currentLeaderIndex \in 0..(Len(players) - 1)
                             THEN players[currentLeaderIndex + 1]
                             ELSE [id |-> "undefined"],
           missionIndex |-> currentMissionIndex,
           missionSize |-> getCurrentMissionSize,
           selectedTeam |-> getSelectedTeamSocketIds,
           voteRejections |-> voteRejections,
           succeededMissions |-> succeededMissions,
           failedMissions |-> failedMissions,
           missionHistory |-> missionHistory,
           gameWinner |-> getWinner,
           myRole |-> players[i].role,
           specialRole |-> players[i].specialRole,
           spies |-> spies.ids,
           hasSpies |-> spies.defined,
           hasVoted |-> MapHas(vts, requestingPlayerId),
           myVote |-> GetOrNull(vts, requestingPlayerId),
           votedPlayers |-> SubmittedSocketIds(SubmittedKeys(vts), players),
           hasSubmittedMissionAction |-> MapHas(acts, requestingPlayerId),
           myMissionAction |-> GetOrNull(acts, requestingPlayerId),
           missionActionsSubmitted |-> SubmittedSocketIds(SubmittedKeys(acts), players),
           custom |-> CustomField(hooks["state:sync"]),
           assassinId |-> IF A = {} THEN "" ELSE players[First(A)].id,
           assassinationTarget |-> assassinationTarget]

\* Room.getGameState(requestingPlayerId)
getGameState(requestingPlayerId) ==
  GameState(requestingPlayerId, votes, missionActions)

\* a call of Room.getGameState(requestingPlayerId)
stateQuery(requestingPlayerId) ==
  /\ ret' = [Ret("getGameState", getGameState(requestingPlayerId).found,
                 <<requestingPlayerId>>) EXCEPT
                !.view = getGameState(requestingPlayerId)]
  /\ UNCHANGED <<players, minPlayers, suspended, expansions, hooks, inquisitorState, phase, currentLeaderIndex,
                 currentMissionIndex, failedMissions, succeededMissions,
                 missionHistory, assassinationTarget, selectedTeam, votes,
                 voteRejections, missionActions, conns, rejectedTallies>>

(***************************************************************************)
(* startGame and resolveMission step by step.  An async method runs up to  *)
(* its first await, and HookManager.trigger invokes its first callback     *)
(* before it awaits the result (GameManager.ts, line 91); every further    *)
(* callback is invoked in a later turn of the job queue.  The callbacks    *)
(* of the expansions and of the test suites complete when they are         *)
(* invoked.                                                                *)
(***************************************************************************)
CallbackDone(hookName, k) == [step |-> "callback", hook |-> hookName, k |-> k]

StepDone(name) == [step |-> name, hook |-> "", k |-> 0]

\* HookManager.trigger, lines 79-91: the callbacks invoked before trigger
\* returns its promise
InvokedAtCall(callbacks) == IF callbacks = <<>> THEN 0 ELSE 1

InvokedEvents(hookName, callbacks) ==
  IF callbacks = <<>> THEN <<>> ELSE <<CallbackDone(hookName, 1)>>

\* Room.startGame, lines 103-107: the check and the call of
\* hookManager.trigger('game:start'), up to the await
startGameCall ==
  /\ suspended.op = "none"
  /\ IF Len(players) < minPlayers
     THEN /\ ret' = Ret("startGame", FALSE, <<>>)
          /\ suspended' = NotSuspended
          /\ UNCHANGED inquisitorState
     ELSE LET callbacks == hooks["game:start"]
              first == SubSeq(callbacks, 1, InvokedAtCall(callbacks))
          IN /\ inquisitorState' \in GameStartHook(first, players, inquisitorState)
             /\ suspended' = [NotSuspended EXCEPT
                                !.op = "startGame", !.hook = "game:start",
                                !.done = Len(first), !.waits = TRUE,
                                !.events = InvokedEvents("game:start", callbacks),
                                !.before = getGameState(PlayerIdName[1])]
             /\ UNCHANGED ret
  /\ UNCHANGED <<players, minPlayers, expansions, hooks, phase, currentLeaderIndex,
                 currentMissionIndex, failedMissions, succeededMissions,
                 missionHistory, assassinationTarget, selectedTeam, votes,
                 voteRejections, missionActions, conns, rejectedTallies>>

\* the call is over when its result was delivered and its pipeline drained
Settled(call) ==
  IF /\ call.op = "startGame"
     /\ call.hook = "roles:assign"
     /\ call.delivered
     /\ call.done = Len(hooks["roles:assign"])
  THEN [NotSuspended EXCEPT !.events = call.events]
  ELSE call

\* Room.startGame, line 109: this.assignRoles() without await.  assignRoles
\* runs up to its await, that is, up to the first roles:assign callback
AssignRolesNotAwaited(callbacks) == InvokedAtCall(callbacks)

\* Room.startGame, lines 109-115, after the game:start pipeline drained:
\* assignRoles up to its await, then phase, leader and return true
startGameResume ==
  /\ suspended.op = "startGame"
  /\ suspended.hook = "game:start"
  /\ suspended.done = Len(hooks["game:start"])
  /\ LET callbacks == hooks["roles:assign"]
         invoked == AssignRolesNotAwaited(callbacks)
         first == SubSeq(callbacks, 1, invoked)
     IN \E assigned \in assignRoles(players, first),
           leader \in 0..(Len(players) - 1) :
          /\ players' = UpdateLeader(assigned, leader)
          /\ phase' = "TEAM_SELECTION"
          /\ currentLeaderIndex' = leader
          /\ suspended' = [suspended EXCEPT
                             !.hook = "roles:assign", !.done = invoked,
                             !.waits = FALSE,
                             !.events = @ \o <<StepDone("roles")>>
                                          \o [k \in 1..invoked |->
                                                CallbackDone("roles:assign", k)]
                                          \o <<StepDone("phase")>>]
  /\ UNCHANGED <<minPlayers, expansions, hooks, inquisitorState, currentMissionIndex,
                 failedMissions, succeededMissions, missionHistory,
                 assassinationTarget, selectedTeam, votes, voteRejections,
                 missionActions, conns, rejectedTallies, ret>>

\* the caller of startGame gets the result.  The promise of startGame is
\* resolved in startGameResume; the continuation of the caller is queued
\* behind the job that invokes the second roles:assign callback.
startGameReturn ==
  /\ suspended.op = "startGame"
  /\ suspended.hook = "roles:assign"
  /\ ~suspended.delivered
  /\ suspended.done >= Len(hooks["roles:assign"]) \/ suspended.done >= 2
  /\ ret' = Ret("startGame", TRUE, <<>>)
  /\ suspended' = Settled([suspended EXCEPT
                             !.delivered = TRUE,
                             !.events = Append(@, StepDone("result"))])
  /\ UNCHANGED <<players, minPlayers, expansions, hooks, inquisitorState, phase,
                 currentLeaderIndex, currentMissionIndex, failedMissions,
                 succeededMissions, missionHistory, assassinationTarget,
                 selectedTeam, votes, voteRejections, missionActions, conns,
                 rejectedTallies>>

\* Room.resolveMission, lines 271-325: everything up to the await of
\* hookManager.trigger('mission:resolve'), the first callback included
resolveMissionCall ==
  LET failCount == MapCount(missionActions, FALSE)
      success == failCount = 0
      succeeded == IF success THEN succeededMissions + 1 ELSE succeededMissions
      failed == IF success THEN failedMissions ELSE failedMissions + 1
      over == failed >= MISSIONS_TO_FAIL \/ succeeded >= MISSIONS_TO_SUCCEED
      nextPhase == IF over THEN "GAME_OVER" ELSE "TEAM_SELECTION"
      callbacks == hooks["mission:resolve"]
      first == SubSeq(callbacks, 1, InvokedAtCall(callbacks))
  IN
  /\ suspended.op = "none"
  /\ succeededMissions' = succeeded
  /\ failedMissions' = failed
  /\ missionHistory' = Append(missionHistory,
                              [success |-> success, failCount |-> failCount])
  /\ missionActions' = EmptyMap
  /\ currentMissionIndex' = IF over THEN currentMissionIndex
                            ELSE currentMissionIndex + 1
  /\ suspended' = [NotSuspended EXCEPT
                     !.op = "resolveMission", !.hook = "mission:resolve",
                     !.done = Len(first), !.waits = TRUE,
                     !.nextPhase = MissionResolveHook(first, succeeded, nextPhase),
                     !.tentative = nextPhase,
                     !.result = [Ret("resolveMission", success, <<>>) EXCEPT
                                   !.failCount = failCount,
                                   !.votes = VotesSocketIds(missionActions, players)],
                     !.events = InvokedEvents("mission:resolve", callbacks),
                     !.before = getGameState(PlayerIdName[1])]
  /\ UNCHANGED <<players, minPlayers, expansions, hooks, inquisitorState, phase,
                 currentLeaderIndex, assassinationTarget, selectedTeam, votes,
                 voteRejections, conns, rejectedTallies, ret>>

\* Room.resolveMission, lines 327-340, after the mission:resolve pipeline
\* drained: the phase is applied, nextTurn is called, the result returned
resolveMissionResume ==
  LET finalPhase == AppliedPhase(suspended.nextPhase, suspended.tentative)
      next == NextLeaderIndex(currentLeaderIndex, Len(players))
  IN
  /\ suspended.op = "resolveMission"
  /\ suspended.done = Len(hooks["mission:resolve"])
  /\ phase' = finalPhase
  /\ suspended' = [NotSuspended EXCEPT
                     !.events = Append(suspended.events, StepDone("result")),
                     !.before = suspended.before, !.seen = suspended.seen]
  /\ IF finalPhase = "TEAM_SELECTION"
     THEN /\ currentLeaderIndex' = next
          /\ IF UpdateLeaderThrows(players, next)
             THEN /\ players' = ClearLeader(players)
                  /\ ret' = [suspended.result EXCEPT !.threw = TRUE]
                  /\ UNCHANGED <<selectedTeam, votes>>
             ELSE /\ players' = UpdateLeader(players, next)
                  /\ selectedTeam' = <<>>
                  /\ votes' = EmptyMap
                  /\ ret' = suspended.result
     ELSE /\ ret' = suspended.result
          /\ UNCHANGED <<players, currentLeaderIndex, selectedTeam, votes>>
  /\ UNCHANGED <<minPlayers, expansions, hooks, inquisitorState, currentMissionIndex,
                 failedMissions, succeededMissions, missionHistory,
                 assassinationTarget, voteRejections, missionActions, conns,
                 rejectedTallies>>

\* HookManager.trigger, lines 90-97, resumed after an await: the next
\* callback of the pipeline of the waiting call is invoked.  The third and
\* later roles:assign callbacks come after the caller of startGame went on.
triggerStep ==
  /\ suspended.op # "none"
  /\ suspended.done < Len(hooks[suspended.hook])
  /\ suspended.hook = "roles:assign" /\ suspended.done >= 2 => suspended.delivered
  /\ LET k == suspended.done + 1
         callback == hooks[suspended.hook][k]
         stepped == [suspended EXCEPT
                       !.done = k,
                       !.events = Append(@, CallbackDone(suspended.hook, k))]
     IN CASE suspended.hook = "game:start" ->
               /\ inquisitorState' \in GameStartHook(<<callback>>, players, inquisitorState)
               /\ suspended' = stepped
               /\ UNCHANGED players
          [] suspended.hook = "roles:assign" ->
               /\ players' \in RolesAssignCallback(callback, players)
               /\ suspended' = Settled(stepped)
               /\ UNCHANGED inquisitorState
          [] OTHER ->
               /\ suspended' = [stepped EXCEPT
                                  !.nextPhase = MissionResolveCallback(
                                                  callback, succeededMissions, @)]
               /\ UNCHANGED <<players, inquisitorState>>
  /\ UNCHANGED <<minPlayers, expansions, hooks, phase, currentLeaderIndex,
                 currentMissionIndex, failedMissions, succeededMissions,
                 missionHistory, assassinationTarget, selectedTeam, votes,
                 voteRejections, missionActions, conns, rejectedTallies, ret>>

\* Room.getGameState called for the first player while a call of the room
\* waits in its pipeline
stateQueryMeanwhile ==
  LET view == getGameState(PlayerIdName[1]) IN
  /\ suspended.op # "none"
  /\ ret' = [Ret("getGameState", view.found, <<PlayerIdName[1]>>) EXCEPT
                !.view = view]
  /\ suspended' = [suspended EXCEPT !.seen = @ \cup {view}]
  /\ UNCHANGED <<players, minPlayers, expansions, hooks, inquisitorState, phase,
                 currentLeaderIndex, currentMissionIndex, failedMissions,
                 succeededMissions, missionHistory, assassinationTarget,
                 selectedTeam, votes, voteRejections, missionActions, conns,
                 rejectedTallies>>

(***************************************************************************)
(* The callers of Room.  The transport layer hands out a fresh connection  *)
(* id for every join and every reconnection and a client supplies its own  *)
(* durable id; Room itself has no phase guard, so a caller may invoke any  *)
(* method at any time.                                                     *)
(***************************************************************************)
JoinNamed ==
  /\ conns < MaxConns
  /\ conns' = conns + 1
  /\ addPlayer(SocketName[conns + 1], PlayerIdName[conns + 1])

Join ==
  /\ conns < MaxConns
  /\ conns' = conns + 1
  /\ \E playerId \in {NoPlayerId, PlayerIdName[conns + 1]} :
        addPlayer(SocketName[conns + 1], playerId)

DurableIds == SocketIds \cup {PlayerIdName[n] : n \in 1..MaxConns}

Reconnect ==
  /\ conns < MaxConns
  /\ conns' = conns + 1
  /\ \E playerId \in DurableIds : reconnectPlayer(playerId, SocketName[conns + 1])

\* a reconnection of a client that was given a durable id
ReconnectNamed ==
  /\ conns < MaxConns
  /\ conns' = conns + 1
  /\ \E playerId \in {PlayerIdName[n] : n \in 1..MaxConns} :
        reconnectPlayer(playerId, SocketName[conns + 1])

Leave == \E id \in SocketIds : removePlayer(id)

TeamArgs == {<<>>} \cup {<<a>> : a \in SocketIds} \cup (SocketIds \X SocketIds)

Propose == \E socketIds \in TeamArgs : selectTeam(socketIds)

Vote == \E socketId \in SocketIds, approve \in BOOLEAN : submitVote(socketId, approve)

Tally == rejectedTallies < MaxRejectedTallies /\ tallyVotes

Act == \E socketId \in SocketIds, success \in BOOLEAN :
          submitMissionAction(socketId, success)

Resolve == Len(missionHistory) < MaxHistory /\ resolveMission

\* the resolution of the first mission of a game
ResolveFirst == missionHistory = <<>> /\ resolveMission

\* a proposal of a single player
ProposeOne == \E a \in SocketIds : selectTeam(<<a>>)

\* a test registers a callback that overrides the phase of a resolved mission
RegisterResolve ==
  /\ Len(hooks["mission:resolve"]) < MaxHooks
  /\ \E callback \in {"forceGameOver", "forceAssassination"} :
        register("mission:resolve", callback)

\* a test registers a state:sync callback that adds a field to the view
RegisterSync ==
  /\ Len(hooks["state:sync"]) < MaxHooks
  /\ register("state:sync", "customField")

\* a client asks for its view
Sync == \E playerId \in {PlayerIdName[n] : n \in 1..MaxConns} : stateQuery(playerId)

Assassinate == \E targetId \in SocketIds : handleAssassination(targetId)

\* every method, in any order
Next ==
  \/ Join
  \/ Reconnect
  \/ Leave
  \/ startGame
  \/ Propose
  \/ Vote
  \/ Tally
  \/ Act
  \/ Resolve
  \/ Assassinate
  \/ resetGame
  \/ RegisterResolve
  \/ RegisterSync
  \/ Sync
  \/ winnerQuery
  \/ missionSizeQuery

Spec == Init /\ [][Next]_vars

\* a room with the default minimum and no expansion
InitBase == Init /\ minPlayers = MIN_PLAYERS /\ expansions = {}

\* votes, tallies and mission resolutions in any order
NextTally ==
  \/ JoinNamed
  \/ Vote
  \/ Tally
  \/ Resolve

SpecTally == InitBase /\ [][NextTally]_vars

\* proposals while players join, reconnect and leave and missions resolve
NextTeam ==
  \/ Join
  \/ Reconnect
  \/ Leave
  \/ Propose
  \/ Resolve

SpecTeam == InitBase /\ [][NextTeam]_vars

\* votes and mission actions while players join and reconnect
NextReconnect ==
  \/ JoinNamed
  \/ ReconnectNamed
  \/ Propose
  \/ Vote
  \/ Act

SpecReconnect == InitBase /\ [][NextReconnect]_vars

\* the first mission while players join, reconnect and leave
NextResult ==
  \/ JoinNamed
  \/ ReconnectNamed
  \/ Leave
  \/ Propose
  \/ Act
  \/ ResolveFirst

SpecResult == InitBase /\ [][NextResult]_vars

\* proposals, mission actions and resolutions in any order, no expansion
NextMission ==
  \/ JoinNamed
  \/ Propose
  \/ Act
  \/ Resolve

SpecMission == InitBase /\ [][NextMission]_vars

\* a room created with the default minimum, with or without merlin-assassin
InitDefault == Init /\ minPlayers = MIN_PLAYERS

\* missions resolved through a pipeline of mission:resolve callbacks
NextHook ==
  \/ JoinNamed
  \/ RegisterResolve
  \/ ProposeOne
  \/ Act
  \/ Resolve

SpecHook == InitDefault /\ [][NextHook]_vars

\* games started and restarted while players join and leave and missions resolve
NextStart ==
  \/ JoinNamed
  \/ Leave
  \/ startGame
  \/ Resolve

SpecStart == Init /\ [][NextStart]_vars

\* games that end by counters, by the rejection penalty or by an assassination
NextAssassin ==
  \/ JoinNamed
  \/ startGame
  \/ Tally
  \/ Resolve
  \/ Assassinate
  \/ winnerQuery

SpecAssassin == InitDefault /\ [][NextAssassin]_vars

\* views requested while players join, games start and state:sync callbacks
\* are registered
NextSync ==
  \/ JoinNamed
  \/ Leave
  \/ RegisterSync
  \/ startGame
  \/ Sync

SpecSync == InitDefault /\ [][NextSync]_vars

\* views requested while votes and mission actions are pending, no expansion
NextSecrecy ==
  \/ JoinNamed
  \/ ProposeOne
  \/ Vote
  \/ Act
  \/ Sync

SpecSecrecy == InitBase /\ [][NextSecrecy]_vars

(***************************************************************************)
(* Rooms of every supported size.  The room has n players, its game was    *)
(* started with the first SpyCount(n) players as spies and the first       *)
(* player as leader, and i missions were resolved, alternately without and *)
(* with a sabotage.                                                        *)
(***************************************************************************)
SizedRoster(n, i) ==
  [k \in 1..n |->
      [id |-> "s" \o ToString(k), playerId |-> "p" \o ToString(k),
       role |-> IF k <= SpyCount(n) THEN "SPY" ELSE "RESISTANCE",
       specialRole |-> "null", isLeader |-> (k = (i % n) + 1)]]

SizedHistory(i) ==
  [k \in 1..i |-> [success |-> (k % 2 = 1), failCount |-> (k + 1) % 2]]

InitSized ==
  \E n \in 1..MAX_PLAYERS, i \in 0..4 :
    /\ players = SizedRoster(n, i)
    /\ minPlayers = MIN_PLAYERS
    /\ expansions = {}
    /\ hooks = NoHooks
    /\ inquisitorState = NoInquisitorState
    /\ suspended = NotSuspended
    /\ phase = "TEAM_SELECTION"
    /\ currentLeaderIndex = i % n
    /\ currentMissionIndex = i
    /\ succeededMissions = (i + 1) \div 2
    /\ failedMissions = i \div 2
    /\ missionHistory = SizedHistory(i)
    /\ assassinationTarget = ""
    /\ selectedTeam = <<>>
    /\ votes = EmptyMap
    /\ voteRejections = 0
    /\ missionActions = EmptyMap
    /\ conns = n
    /\ rejectedTallies = 0
    /\ ret = NoRet

\* the leader proposes the first players of the roster, as many as the
\* mission takes
ProposeFirst ==
  selectTeam([k \in 1..getCurrentMissionSize |-> players[k].id])

NextSized ==
  \/ missionSizeQuery
  \/ ProposeFirst

SpecSized == InitSized /\ [][NextSized]_vars

\* a test registers one of its callbacks for its hook
RegisterTest ==
  \E callback \in TestCallbacks :
    /\ Len(hooks["test:hook"]) < MaxHooks + 1
    /\ register("test:hook", callback)

\* a test registers a callback for another hook
RegisterOther ==
  /\ hooks["stop:hook"] = <<>>
  /\ register("stop:hook", "overwrite")

\* a test triggers one of its two hooks
TriggerTest ==
  \E hookName \in {"test:hook", "stop:hook"}, value \in 0..2 :
    trigger(hookName, Context(value))

\* the HookManager on its own: callbacks are registered and hooks triggered
NextTrigger ==
  \/ RegisterTest
  \/ RegisterOther
  \/ TriggerTest

SpecTrigger == InitBase /\ [][NextTrigger]_vars

(***************************************************************************)
(* Rooms created with a list of variants, in every order of the list, and  *)
(* with every roster of 2..MaxRoster players waiting in the lobby.         *)
(***************************************************************************)
LobbyRoster(n) ==
  [k \in 1..n |->
      [id |-> "s" \o ToString(k), playerId |-> "p" \o ToString(k),
       role |-> "undefined", specialRole |-> "undefined", isLeader |-> FALSE]]

VisibilityLists ==
  {<<>>, <<"blind-spies">>, <<"merlin-assassin">>,
   <<"blind-spies", "merlin-assassin">>, <<"merlin-assassin", "blind-spies">>}

InitVisibility ==
  \E n \in 2..MaxRoster, expansionIds \in VisibilityLists :
    /\ players = LobbyRoster(n)
    /\ minPlayers = MIN_PLAYERS
    /\ expansions = {expansionIds[k] : k \in 1..Len(expansionIds)}
    /\ hooks = createRoom(expansionIds, NewGameManager).hooks
    /\ inquisitorState = NoInquisitorState
    /\ suspended = NotSuspended
    /\ phase = "LOBBY"
    /\ currentLeaderIndex = 0
    /\ currentMissionIndex = 0
    /\ failedMissions = 0
    /\ succeededMissions = 0
    /\ missionHistory = <<>>
    /\ assassinationTarget = ""
    /\ selectedTeam = <<>>
    /\ votes = EmptyMap
    /\ voteRejections = 0
    /\ missionActions = EmptyMap
    /\ conns = n
    /\ rejectedTallies = 0
    /\ ret = NoRet

\* a player of the roster asks for its view
SyncAny == \E i \in 1..Len(players) : stateQuery(players[i].playerId)

NextVisibility ==
  \/ startGame
  \/ SyncAny

SpecVisibility == InitVisibility /\ [][NextVisibility]_vars

\* a callback that looks at the room is registered for game:reset
RegisterReset ==
  /\ hooks["game:reset"] = <<>>
  /\ register("game:reset", "observer")

\* games started, played and reset while players join and leave
NextReset ==
  \/ JoinNamed
  \/ Leave
  \/ RegisterReset
  \/ startGame
  \/ Resolve
  \/ resetGame

SpecReset == Init /\ [][NextReset]_vars

\* players join and leave while a team is proposed and votes and mission
\* actions are submitted
NextPending ==
  \/ JoinNamed
  \/ Leave
  \/ ProposeOne
  \/ Vote
  \/ Act

SpecPending == InitBase /\ [][NextPending]_vars

(***************************************************************************)
(* A room of a GameManager that created up to MaxOtherRooms rooms before.  *)
(***************************************************************************)
RoomLists == {<<>>, <<"merlin-assassin">>, <<"inquisidor">>}

OtherRooms ==
  UNION {[1..n -> RoomLists] : n \in 0..MaxOtherRooms}

InitRooms ==
  \E before \in OtherRooms, expansionIds \in RoomLists :
    /\ players = <<>>
    /\ minPlayers = MIN_PLAYERS
    /\ expansions = {expansionIds[k] : k \in 1..Len(expansionIds)}
    /\ hooks = createRoom(expansionIds, createRooms(before, NewGameManager)).hooks
    /\ inquisitorState = NoInquisitorState
    /\ suspended = NotSuspended
    /\ phase = "LOBBY"
    /\ currentLeaderIndex = 0
    /\ currentMissionIndex = 0
    /\ failedMissions = 0
    /\ succeededMissions = 0
    /\ missionHistory = <<>>
    /\ assassinationTarget = ""
    /\ selectedTeam = <<>>
    /\ votes = EmptyMap
    /\ voteRejections = 0
    /\ missionActions = EmptyMap
    /\ conns = 0
    /\ rejectedTallies = 0
    /\ ret = NoRet

\* players join, the game starts and missions resolve
NextRooms ==
  \/ JoinNamed
  \/ startGame
  \/ Resolve

SpecRooms == InitRooms /\ [][NextRooms]_vars

\* the first room of its GameManager, created with the inquisidor expansion
InitInquisidor ==
  /\ InitRooms
  /\ expansions = {"inquisidor"}
  /\ hooks = createRoom(<<"inquisidor">>, NewGameManager).hooks

\* a socket sends inquisitor:investigate
Investigate ==
  /\ Len(inquisitorState.investigationHistory) < MaxInvestigations
  /\ \E socketId \in SocketIds, targetId \in SocketIds :
        investigate(socketId, targetId)

\* investigations while players join, reconnect and leave and games start
NextInquisidor ==
  \/ JoinNamed
  \/ ReconnectNamed
  \/ Leave
  \/ startGame
  \/ Investigate

SpecInquisidor == InitInquisidor /\ [][NextInquisidor]_vars

\* a mission resolved in whatever phase the room is in, the end of the game
\* included
ResolveMany == Len(missionHistory) < MaxResolved /\ resolveMission

\* the first player of the roster sabotages the mission
Sabotage ==
  /\ players # <<>>
  /\ submitMissionAction(players[1].id, FALSE)

\* tallies, sabotages and resolutions go on after a counter reached 3
NextCounters ==
  \/ JoinNamed
  \/ ProposeFirst
  \/ Sabotage
  \/ Tally
  \/ ResolveMany

SpecCounters == InitDefault /\ [][NextCounters]_vars

(***************************************************************************)
(* Rooms created with the inquisidor expansion, alone or together with     *)
(* merlin-assassin in either order, with 2 or 3 players in the lobby.      *)
(***************************************************************************)
InvestigationLists ==
  {<<"inquisidor">>, <<"inquisidor", "merlin-assassin">>,
   <<"merlin-assassin", "inquisidor">>}

InitInvestigation ==
  \E n \in 2..3, expansionIds \in InvestigationLists :
    /\ players = LobbyRoster(n)
    /\ minPlayers = MIN_PLAYERS
    /\ expansions = {expansionIds[k] : k \in 1..Len(expansionIds)}
    /\ hooks = createRoom(expansionIds, NewGameManager).hooks
    /\ inquisitorState = NoInquisitorState
    /\ suspended = NotSuspended
    /\ phase = "LOBBY"
    /\ currentLeaderIndex = 0
    /\ currentMissionIndex = 0
    /\ failedMissions = 0
    /\ succeededMissions = 0
    /\ missionHistory = <<>>
    /\ assassinationTarget = ""
    /\ selectedTeam = <<>>
    /\ votes = EmptyMap
    /\ voteRejections = 0
    /\ missionActions = EmptyMap
    /\ conns = n
    /\ rejectedTallies = 0
    /\ ret = NoRet

\* the game of the room is started once
StartOnce == phase = "LOBBY" /\ startGame

\* missions resolved and investigations ended in any order
NextInvestigation ==
  \/ StartOnce
  \/ ProposeFirst
  \/ Sabotage
  \/ Tally
  \/ Resolve
  \/ endInvestigation

SpecInvestigation == InitInvestigation /\ [][NextInvestigation]_vars

(***************************************************************************)
(* startGame step by step, in rooms of 2 or 3 players created with or      *)
(* without merlin-assassin and inquisidor, after a test registered further *)
(* callbacks of its own (async (c) => c) for game:start and roles:assign.  *)
(***************************************************************************)
StartLists ==
  {<<>>, <<"merlin-assassin">>, <<"inquisidor">>, <<"inquisidor", "merlin-assassin">>}

InitStartSteps ==
  /\ InitRooms
  /\ hooks \in {createRoom(expansionIds, NewGameManager).hooks :
                   expansionIds \in StartLists}

\* a test registers a callback that returns its context
RegisterStart ==
  \E hookName \in {"game:start", "roles:assign"} :
    /\ phase = "LOBBY"
    /\ suspended.op = "none"
    /\ Len(hooks[hookName]) < MaxStartHooks
    /\ register(hookName, "identity")

\* the game of the room is started once, step by step
StartCallOnce == phase = "LOBBY" /\ startGameCall

NextStartSteps ==
  \/ JoinNamed
  \/ RegisterStart
  \/ StartCallOnce
  \/ triggerStep
  \/ startGameResume
  \/ startGameReturn

SpecStartSteps == InitStartSteps /\ [][NextStartSteps]_vars

(***************************************************************************)
(* A game in a room of 2 or 3 players: teams are proposed and approved by  *)
(* every player, the first player acts on the mission, startGame and       *)
(* resolveMission run step by step, and the first player asks for its view *)
(* meanwhile.  A caller that does not await the call (or a callback that   *)
(* suspends) lets getGameState run between two steps.                      *)
(***************************************************************************)
InitSuspended ==
  \/ InitInvestigation
  \/ InitVisibility /\ expansions = {} /\ Len(players) = 2

Idle == suspended.op = "none"

ApproveIdle ==
  /\ Idle
  /\ phase = "VOTE"
  /\ \E i \in 1..Len(players) :
        /\ ~MapHas(votes, players[i].playerId)
        /\ submitVote(players[i].id, TRUE)

TallyIdle ==
  /\ Idle
  /\ phase = "VOTE"
  /\ Cardinality(DOMAIN votes) = Len(players)
  /\ tallyVotes

ProposeIdle == Idle /\ phase = "TEAM_SELECTION" /\ ProposeFirst

ActIdle ==
  /\ Idle
  /\ phase = "MISSION"
  /\ missionActions = EmptyMap
  /\ \E success \in BOOLEAN : submitMissionAction(players[1].id, success)

ResolveCall ==
  /\ phase = "MISSION"
  /\ missionActions # EmptyMap
  /\ Len(missionHistory) < MaxHistory
  /\ resolveMissionCall

EndIdle == Idle /\ phase = "INQUISITOR_INVESTIGATION" /\ endInvestigation

NextSuspended ==
  \/ StartCallOnce
  \/ startGameResume
  \/ startGameReturn
  \/ triggerStep
  \/ ProposeIdle
  \/ ApproveIdle
  \/ TallyIdle
  \/ ActIdle
  \/ ResolveCall
  \/ resolveMissionResume
  \/ EndIdle
  \/ stateQueryMeanwhile

SpecSuspended == InitSuspended /\ [][NextSuspended]_vars

(***************************************************************************)
(* The elimination sub-game in rooms of 2 players created with             *)
(* merlin-assassin: the game is started, missions are resolved, a target   *)
(* is named, and players join and reconnect at any time.                   *)
(***************************************************************************)
InitElimination ==
  /\ InitVisibility
  /\ "merlin-assassin" \in expansions
  /\ Len(players) = 2

\* the assassin names a target in the assassination phase
AssassinateInPhase == phase = "ASSASSINATION" /\ Assassinate

NextElimination ==
  \/ StartOnce
  \/ Sabotage
  \/ Resolve
  \/ AssassinateInPhase
  \/ ReconnectNamed
  \/ JoinNamed
  \/ winnerQuery

SpecElimination == InitElimination /\ [][NextElimination]_vars

(***************************************************************************)
(* A whole game played by the protocol in a room without variants, for     *)
(* every roster of 1..MAX_PLAYERS players.  The game was started with the  *)
(* first SpyCount(n) players as spies and the first player as leader.  The *)
(* leader proposes in TEAM_SELECTION, the first player may vote before the *)
(* tally in VOTE and may act before the resolution in MISSION.             *)
(***************************************************************************)
InitGame ==
  /\ InitSized
  /\ currentMissionIndex = 0

ProposeInTurn == phase = "TEAM_SELECTION" /\ ProposeFirst

VoteInTurn ==
  /\ phase = "VOTE"
  /\ votes = EmptyMap
  /\ \E approve \in BOOLEAN : submitVote(players[1].id, approve)

TallyInTurn == phase = "VOTE" /\ tallyVotes

ActInTurn ==
  /\ phase = "MISSION"
  /\ missionActions = EmptyMap
  /\ \E success \in BOOLEAN : submitMissionAction(players[1].id, success)

ResolveInTurn == phase = "MISSION" /\ resolveMission

NextGame ==
  \/ ProposeInTurn
  \/ VoteInTurn
  \/ TallyInTurn
  \/ ActInTurn
  \/ ResolveInTurn

SpecGame == InitGame /\ [][NextGame]_vars

\* the clients keep playing: an operation the protocol allows is called
\* eventually
SpecGameLive == SpecGame /\ WF_vars(NextGame)

(***************************************************************************)
(* Properties of tallyVotes                                                *)
(***************************************************************************)
\* C1: the rejection streak is cumulative.  In every state the streak equals
\* the number of rejected tallies of the game modulo MAX_REJECTIONS, however
\* many approved tallies and resolved missions came in between, and a rejected
\* tally applies the penalty exactly when it is the 5th (10th, ...) rejected
\* tally of the game.
C1_CumulativeStreak ==
  /\ voteRejections = rejectedTallies % MAX_REJECTIONS
  /\ (ret.op = "tallyVotes" /\ ~ret.ok) =>
        (ret.penaltyApplied <=> rejectedTallies % MAX_REJECTIONS = 0)

\* C1 witness: the penalty falls on the 5th rejected tally of a game in which
\* a mission was approved and resolved on the way
C1_Witness ==
  /\ ret.op = "tallyVotes"
  /\ ret.penaltyApplied
  /\ rejectedTallies = MAX_REJECTIONS
  /\ succeededMissions >= 1

\* C2: a rejected tally that brings the streak to MAX_REJECTIONS returns
\* penaltyApplied, ends the game with the spies as winner whatever the mission
\* counters were, and resets the streak; any other rejected tally returns
\* penaltyApplied = false.
C2_PenaltyIsImmediateLoss ==
  [][(ret'.op = "tallyVotes" /\ ~ret'.ok /\ ~ret'.threw) =>
        IF voteRejections + 1 >= MAX_REJECTIONS
        THEN /\ ret'.penaltyApplied
             /\ phase' = "GAME_OVER"
             /\ getWinner' = "SPY"
             /\ voteRejections' = 0
        ELSE ~ret'.penaltyApplied]_vars

\* C3 as stated: after an approving tally the phase is MISSION and the streak is 0
C3_ApprovalResetsStreak ==
  (ret.op = "tallyVotes" /\ ret.ok) => (phase = "MISSION" /\ voteRejections = 0)

\* C3 amended: an approving tally returns approved = true (more approvals than
\* rejections), sets the phase to MISSION and leaves the streak as it was
C3_ApprovalKeepsStreak ==
  [][(ret'.op = "tallyVotes" /\ ret'.ok) =>
        /\ ret'.approveCount > ret'.rejectCount
        /\ phase' = "MISSION"
        /\ voteRejections' = voteRejections]_vars

\* C3 witness: an approving tally with a split vote after an earlier rejection
C3_Witness ==
  /\ ret.op = "tallyVotes"
  /\ ret.ok
  /\ ret.rejectCount >= 1
  /\ phase = "MISSION"
  /\ voteRejections >= 1

\* C4: tallyVotes returns the number of approving and of rejecting recorded
\* votes, which add up to the number of recorded votes; it approves iff the
\* approvals outnumber the rejections (a tie and an empty vote set reject);
\* and whenever it returns the vote map is empty.
C4_StrictMajority ==
  [][ret'.op = "tallyVotes" =>
        LET a == Cardinality({key \in DOMAIN votes : votes[key]})
            r == Cardinality({key \in DOMAIN votes : ~votes[key]})
        IN /\ ret'.approveCount = a
           /\ ret'.rejectCount = r
           /\ a + r = Cardinality(DOMAIN votes)
           /\ ret'.ok <=> a > r
           /\ ~ret'.threw => votes' = EmptyMap]_vars

\* C4 witness: a tie is tallied as a rejection and the vote map is cleared
C4_Witness ==
  /\ ret.op = "tallyVotes"
  /\ ~ret.threw
  /\ ret.approveCount = 1
  /\ ret.rejectCount = 1
  /\ ~ret.ok
  /\ votes = EmptyMap

(***************************************************************************)
(* Properties of selectTeam                                                *)
(***************************************************************************)
\* the mission-size table has an entry for the current roster and mission
HasMissionSize ==
  Len(players) \in 1..Len(MISSION_CONFIG) /\ currentMissionIndex \in 0..4

\* every proposed id is the connection id of a current roster member
AllCurrent(socketIds) ==
  \A k \in 1..Len(socketIds) : \E i \in 1..Len(players) : players[i].id = socketIds[k]

\* C5: where the table has an entry, selectTeam(ids) returns false iff the
\* number of ids differs from the configured team size or some id is not the
\* connection id of a roster member; a call that returns false leaves
\* selectedTeam and phase unchanged, a call that returns true sets phase to
\* VOTE and selectedTeam to the durable ids of the given ids, in order.
C5_SelectTeamContract ==
  [][ret'.op = "selectTeam" =>
        LET ids == ret'.args IN
        /\ HasMissionSize =>
              (~ret'.ok <=>
                 \/ Len(ids) # MISSION_CONFIG[Len(players)][currentMissionIndex + 1]
                 \/ ~AllCurrent(ids))
        /\ ~ret'.ok => selectedTeam' = selectedTeam /\ phase' = phase
        /\ ret'.ok =>
              /\ phase' = "VOTE"
              /\ Len(selectedTeam') = Len(ids)
              /\ \A k \in 1..Len(ids) : \E i \in 1..Len(players) :
                    /\ players[i].id = ids[k]
                    /\ players[i].playerId = selectedTeam'[k]
                    /\ \A j \in 1..(i - 1) : players[j].id # ids[k]]_vars

\* a proposal of two players in non-roster order was accepted, and one of
\* them has a durable id different from its connection id
C5_Witness ==
  /\ ret.op = "selectTeam" /\ ret.ok /\ phase = "VOTE"
  /\ Len(ret.args) = 2 /\ Len(selectedTeam) = 2
  /\ selectedTeam[1] # ret.args[1]
  /\ getPlayer(ret.args[1]) > getPlayer(ret.args[2])
  /\ getPlayer(ret.args[2]) > 0

\* C6: when the mission-size table has no entry for the current roster size
\* and mission index, selectTeam returns false for every argument, the empty
\* list included, and leaves the phase as it was.
C6_NoEntryRejects ==
  [][(ret'.op = "selectTeam" /\ ~HasMissionSize) =>
        (~ret'.ok /\ phase' = phase /\ phase' # "VOTE")]_vars
(***************************************************************************)
(* Properties of reconnectPlayer                                           *)
(***************************************************************************)
\* the durable ids of the roster
RosterPlayerIds == {players[i].playerId : i \in 1..Len(players)}

\* everything of the room but the roster
RoomButPlayers ==
  <<minPlayers, suspended, expansions, hooks, inquisitorState, phase, currentLeaderIndex,
    currentMissionIndex, failedMissions, succeededMissions, missionHistory,
    assassinationTarget, selectedTeam, votes, voteRejections, missionActions>>

\* C7: reconnectPlayer(durableId, newId) returns true iff the durable id is
\* in the roster; then only that player's connection id changes (roster order,
\* roles, leader, phase, counters, selectedTeam, votes and mission actions
\* stay), otherwise nothing changes.  submitVote / submitMissionAction from a
\* player's current connection id writes the entry of its durable id, so
\* with no removal every recorded key is the durable id of a roster member
\* and no player has more than one vote or one action.
C7_ReconnectFrame ==
  [][
      /\ ret'.op = "reconnectPlayer" =>
          LET d == ret'.args[1]
              i == getPlayerByPlayerId(d)
          IN /\ ret'.ok <=> d \in RosterPlayerIds
             /\ RoomButPlayers' = RoomButPlayers
             /\ ret'.ok => players' = [players EXCEPT ![i].id = ret'.args[2]]
             /\ ~ret'.ok => players' = players
      /\ (ret'.op = "submitVote" /\ getPlayer(ret'.args[1]) # 0) =>
          LET voter == players[getPlayer(ret'.args[1])].playerId
          IN /\ DOMAIN votes' = DOMAIN votes \cup {voter}
             /\ votes'[voter] = ret'.ok
             /\ \A key \in DOMAIN votes \ {voter} : votes'[key] = votes[key]
      /\ (ret'.op = "submitMissionAction" /\ ret'.ok) =>
          LET actor == players[getPlayer(ret'.args[1])].playerId
          IN /\ DOMAIN missionActions' = DOMAIN missionActions \cup {actor}
             /\ \A key \in DOMAIN missionActions \ {actor} :
                   missionActions'[key] = missionActions[key]
      /\ DOMAIN votes' \subseteq RosterPlayerIds'
      /\ DOMAIN missionActions' \subseteq RosterPlayerIds'
      /\ Cardinality(DOMAIN votes') <= Len(players')
      /\ Cardinality(DOMAIN missionActions') <= Len(players')
    ]_vars

\* a player with a recorded vote and a recorded mission action reconnected
C7_Witness ==
  /\ ret.op = "reconnectPlayer" /\ ret.ok
  /\ MapHas(votes, ret.args[1])
  /\ MapHas(missionActions, ret.args[1])
  /\ Len(players) >= 2
  /\ players[getPlayerByPlayerId(ret.args[1])].id = ret.args[2]

\* C8: when a player with a recorded vote (mission action) reconnects under
\* a new connection id, the view built for its durable id right afterwards
\* has hasVoted (hasSubmittedMissionAction) true and lists the new connection
\* id, and not the old one, in votedPlayers (missionActionsSubmitted) and,
\* for a member of the selected team, in selectedTeam.
C8_ViewFollowsReconnect ==
  [][\A d \in RosterPlayerIds :
      (ret'.op = "reconnectPlayer" /\ ret'.ok /\ ret'.args[1] = d) =>
        LET new == ret'.args[2]
            old == players[getPlayerByPlayerId(d)].id
            view == getGameState(d)'
            team == {view.selectedTeam[k] : k \in 1..Len(view.selectedTeam)}
        IN /\ view.found /\ view.player.id = new /\ old # new
           /\ MapHas(votes, d) =>
                 view.hasVoted /\ new \in view.votedPlayers
                               /\ old \notin view.votedPlayers
           /\ MapHas(missionActions, d) =>
                 view.hasSubmittedMissionAction
                   /\ new \in view.missionActionsSubmitted
                   /\ old \notin view.missionActionsSubmitted
           /\ (\E k \in 1..Len(selectedTeam) : selectedTeam[k] = d) =>
                 new \in team /\ old \notin team]_vars

\* the view of a selected player that voted, acted and then reconnected
C8_Witness ==
  /\ ret.op = "reconnectPlayer" /\ ret.ok
  /\ getGameState(ret.args[1]).found
  /\ getGameState(ret.args[1]).hasVoted
  /\ getGameState(ret.args[1]).hasSubmittedMissionAction
  /\ ret.args[2] \in getGameState(ret.args[1]).votedPlayers
  /\ ret.args[2] \in getGameState(ret.args[1]).missionActionsSubmitted
  /\ getGameState(ret.args[1]).selectedTeam # <<>>
  /\ Cardinality(getGameState(ret.args[1]).votedPlayers) = 2
(***************************************************************************)
(* Properties of resolveMission                                            *)
(***************************************************************************)
\* C9: a resolveMission call that returns reports success iff no recorded
\* action is false, failCount = the number of false actions, and a map with
\* exactly one entry per recorded action, holding the recorded value under
\* the player's current connection id when the player is in the roster and
\* under its durable id when the player was removed.
C9_ResolveResult ==
  [][(ret'.op = "resolveMission" /\ ~ret'.threw) =>
        LET sabotage == {key \in DOMAIN missionActions : ~missionActions[key]}
        IN /\ ret'.failCount = Cardinality(sabotage)
           /\ ret'.ok <=> sabotage = {}
           /\ Cardinality(DOMAIN ret'.votes) = Cardinality(DOMAIN missionActions)
           /\ \A key \in DOMAIN missionActions :
                 LET P == {i \in 1..Len(players) : players[i].playerId = key}
                     returned == IF P = {} THEN key ELSE players[First(P)].id
                 IN /\ returned \in DOMAIN ret'.votes
                    /\ ret'.votes[returned] = missionActions[key]]_vars

\* a resolution with two recorded actions, one of them a sabotage, one of the
\* two players removed after submitting
C9_Witness ==
  /\ ret.op = "resolveMission" /\ ~ret.threw /\ ~ret.ok /\ ret.failCount = 1
  /\ Cardinality(DOMAIN ret.votes) = 2
  /\ \E key \in DOMAIN ret.votes : key \in SocketIds /\ getPlayer(key) # 0
  /\ \E key \in DOMAIN ret.votes : key \notin SocketIds /\ getPlayerByPlayerId(key) = 0

\* C10: with no expansion, every resolveMission increments exactly one of
\* succeededMissions / failedMissions by one, appends one {success, failCount}
\* entry to missionHistory and empties missionActions; the phase becomes
\* GAME_OVER, with the mission index unchanged, iff a counter is now >= 3,
\* and TEAM_SELECTION with the mission index advanced by one otherwise; a
\* call that then returns has advanced the leader index by one modulo the
\* roster size and emptied selectedTeam.
C10_ResolveStep ==
  [][(ret'.op = "resolveMission" /\ expansions = {}) =>
        /\ \/ succeededMissions' = succeededMissions + 1 /\ failedMissions' = failedMissions
           \/ succeededMissions' = succeededMissions /\ failedMissions' = failedMissions + 1
        /\ Len(missionHistory') = Len(missionHistory) + 1
        /\ SubSeq(missionHistory', 1, Len(missionHistory)) = missionHistory
        /\ missionHistory'[Len(missionHistory')] =
              [success |-> ret'.ok, failCount |-> ret'.failCount]
        /\ ret'.ok <=> succeededMissions' = succeededMissions + 1
        /\ missionActions' = EmptyMap
        /\ phase' = "GAME_OVER" <=>
              (succeededMissions' >= 3 \/ failedMissions' >= 3)
        /\ phase' = "GAME_OVER" => currentMissionIndex' = currentMissionIndex
        /\ phase' # "GAME_OVER" =>
              /\ phase' = "TEAM_SELECTION"
              /\ currentMissionIndex' = currentMissionIndex + 1
              /\ ~ret'.threw =>
                    /\ currentLeaderIndex' = (currentLeaderIndex + 1) % Len(players)
                    /\ players'[currentLeaderIndex' + 1].isLeader
                    /\ selectedTeam' = <<>>]_vars

\* the leader index wrapped around to 0 in a room of two or more players,
\* after one successful and one failed mission
C10_Witness ==
  /\ ret.op = "resolveMission" /\ ~ret.threw /\ phase = "TEAM_SELECTION"
  /\ Len(players) >= 2 /\ currentLeaderIndex = 0
  /\ succeededMissions >= 1 /\ failedMissions >= 1
  /\ Len(missionHistory) = succeededMissions + failedMissions
(***************************************************************************)
(* Properties of the mission:resolve pipeline                              *)
(***************************************************************************)
\* C11: after resolveMission the phase is the nextPhase of the context the
\* mission:resolve pipeline returned: the phase forced by the last
\* overriding callback, whatever the counters say, the redirection of the
\* merlin-assassin callback when it is the only one, the tentative phase
\* with no callback.  The leader advances (and the team is emptied) iff that
\* final phase is TEAM_SELECTION.
C11_HookPhaseAdopted ==
  [][ret'.op = "resolveMission" =>
        LET callbacks == hooks["mission:resolve"]
            last == IF callbacks = <<>> THEN "none" ELSE callbacks[Len(callbacks)]
            over == succeededMissions' >= 3 \/ failedMissions' >= 3
            tentative == IF over THEN "GAME_OVER" ELSE "TEAM_SELECTION"
        IN /\ last = "forceGameOver" => phase' = "GAME_OVER"
           /\ last = "forceAssassination" => phase' = "ASSASSINATION"
           /\ last = "none" => phase' = tentative
           /\ last = "merlin-assassin" =>
                 phase' = IF succeededMissions' >= 3 THEN "ASSASSINATION" ELSE tentative
           /\ (phase' = "TEAM_SELECTION" /\ ~ret'.threw) =>
                 /\ currentLeaderIndex' = (currentLeaderIndex + 1) % Len(players)
                 /\ players'[currentLeaderIndex' + 1].isLeader
                 /\ selectedTeam' = <<>>
           /\ phase' # "TEAM_SELECTION" =>
                 /\ ~ret'.threw
                 /\ UNCHANGED <<currentLeaderIndex, players, selectedTeam>>]_vars

\* a callback forced GAME_OVER after a failed mission of a game that would
\* have continued, in a room of two players with a team selected
C11_Witness ==
  /\ ret.op = "resolveMission" /\ ~ret.ok
  /\ phase = "GAME_OVER" /\ succeededMissions < 3 /\ failedMissions < 3
  /\ Registered("mission:resolve", "forceGameOver")
  /\ Len(players) >= 2 /\ selectedTeam # <<>>
(***************************************************************************)
(* Properties of submitMissionAction                                       *)
(***************************************************************************)
\* C12: submitMissionAction(id, success) returns true iff id is the
\* connection id of a roster member whose durable id is in selectedTeam; a
\* false return leaves missionActions unchanged; a true return sets exactly
\* the entry of that durable id to success and leaves every other entry.
\* Nothing else of the room changes.
C12_MissionActionContract ==
  [][ret'.op = "submitMissionAction" =>
        LET P == {i \in 1..Len(players) : players[i].id = ret'.args[1]}
            actor == IF P = {} THEN "" ELSE players[First(P)].playerId
            member == P # {} /\ \E k \in 1..Len(selectedTeam) : selectedTeam[k] = actor
        IN /\ ret'.ok <=> member
           /\ ~ret'.ok => missionActions' = missionActions
           /\ ret'.ok =>
                 /\ DOMAIN missionActions' = DOMAIN missionActions \cup {actor}
                 /\ BoolName(missionActions'[actor]) = ret'.args[2]
                 /\ \A key \in DOMAIN missionActions \ {actor} :
                       missionActions'[key] = missionActions[key]
           /\ UNCHANGED <<players, phase, selectedTeam, votes, currentMissionIndex,
                          succeededMissions, failedMissions>>]_vars

\* a sabotage was recorded next to another player's successful action
C12_Witness ==
  /\ ret.op = "submitMissionAction" /\ ret.ok /\ ret.args[2] = "false"
  /\ Cardinality(DOMAIN missionActions) = 2
  /\ \E key \in DOMAIN missionActions : missionActions[key]
  /\ getPlayerIdFromSocket(ret.args[1]) \in DOMAIN missionActions
(***************************************************************************)
(* Phase discipline                                                        *)
(***************************************************************************)
\* C13: a mutating operation invoked in the wrong phase fails and changes
\* nothing: selectTeam outside TEAM_SELECTION returns false and
\* submitMissionAction outside MISSION returns false, and each leaves phase,
\* selectedTeam, votes and missionActions as they were.
C13_WrongPhaseRejected ==
  [][( \/ ret'.op = "selectTeam" /\ phase # "TEAM_SELECTION"
       \/ ret'.op = "submitMissionAction" /\ phase # "MISSION" ) =>
        /\ ~ret'.ok
        /\ UNCHANGED <<phase, selectedTeam, votes, missionActions>>]_vars
(***************************************************************************)
(* Properties of startGame and of the role assignment                      *)
(***************************************************************************)
\* C14: startGame returns false and changes nothing when the roster is
\* smaller than minPlayers; otherwise it returns true, and then the phase is
\* TEAM_SELECTION, every roster member has the role SPY or RESISTANCE, the
\* leader index is within the roster and the one player with isLeader set is
\* the player at the leader index.  The roster keeps its members and order.
C14_StartGameContract ==
  [][ret'.op = "startGame" =>
        /\ ret'.ok <=> Len(players) >= minPlayers
        /\ ~ret'.ok => players' = players /\ RoomButPlayers' = RoomButPlayers
        /\ ret'.ok =>
              /\ phase' = "TEAM_SELECTION"
              /\ Len(players') = Len(players)
              /\ currentLeaderIndex' \in 0..(Len(players') - 1)
              /\ \A i \in 1..Len(players') :
                    /\ players'[i].role \in {"SPY", "RESISTANCE"}
                    /\ players'[i].isLeader <=> i = currentLeaderIndex' + 1
                    /\ players'[i].id = players[i].id
                    /\ players'[i].playerId = players[i].playerId]_vars

\* a game restarted in a room of three: the leader is the third player and
\* the game had one resolved mission
C14_Witness ==
  /\ ret.op = "startGame" /\ ret.ok /\ phase = "TEAM_SELECTION"
  /\ Len(players) = 3 /\ currentLeaderIndex = 2 /\ players[3].isLeader
  /\ missionHistory # <<>>
\* C15: for a roster of N players, 1 <= N <= 20, a role assignment gives
\* exactly SPY_COUNT[N] players the role SPY and the other N - SPY_COUNT[N]
\* players the role RESISTANCE, whatever the shuffle (no spy for N = 1).
C15_SpyCountExact ==
  [][(ret'.op = "startGame" /\ ret'.ok /\ Len(players) \in 1..20) =>
        LET n == Len(players')
            spies == {i \in 1..n : players'[i].role = "SPY"}
            resistance == {i \in 1..n : players'[i].role = "RESISTANCE"}
        IN /\ Cardinality(spies) = SPY_COUNT[n]
           /\ Cardinality(resistance) = n - SPY_COUNT[n]
           /\ spies \cup resistance = 1..n]_vars
(***************************************************************************)
(* Properties of the mission-size table                                    *)
(***************************************************************************)
\* C16: for every roster size n in 1..20 and every mission index i in 0..4
\* getCurrentMissionSize is a team size of the table with
\* 1 <= size <= n.
C16_MissionSizeInRange ==
  (Len(players) \in 1..20 /\ currentMissionIndex \in 0..4) =>
     /\ getCurrentMissionSize \in 1..Len(players)
     /\ ret.op = "getCurrentMissionSize" =>
           ret.value = getCurrentMissionSize /\ ret.value \in 1..Len(players)
     /\ ret.op = "selectTeam" =>
           ret.ok /\ Len(selectedTeam) = getCurrentMissionSize

\* the size of the last mission in a room of 20 players
C16_Witness ==
  /\ ret.op = "getCurrentMissionSize" /\ ret.value = 8
  /\ Len(players) = 20 /\ currentMissionIndex = 4
  /\ Len(selectedTeam) = 8
(***************************************************************************)
(* Properties of handleAssassination and getWinner                         *)
(***************************************************************************)
\* the winner the mission counters alone decide
CountersWinner(succeeded, failed) ==
  IF succeeded >= 3 THEN "RESISTANCE" ELSE IF failed >= 3 THEN "SPY" ELSE ""

\* C17: handleAssassination(targetId) always sets the phase to GAME_OVER and
\* records targetId; it returns success iff targetId is the connection id of
\* the player with the special role MERLIN (false when there is none); after
\* a success getWinner is SPY even with 3 succeeded missions, after a miss
\* getWinner is what the mission counters decide.
C17_AssassinationOutcome ==
  [][ret'.op = "handleAssassination" =>
        LET target == ret'.args[1]
            M == {i \in 1..Len(players) : players[i].specialRole = "MERLIN"}
            hit == \E i \in M : players[i].id = target
        IN /\ phase' = "GAME_OVER"
           /\ assassinationTarget' = target
           /\ Cardinality(M) <= 1
           /\ ret'.ok <=> hit
           /\ ret'.ok => getWinner' = "SPY"
           /\ ~ret'.ok => getWinner' = CountersWinner(succeededMissions, failedMissions)
           /\ UNCHANGED <<players, succeededMissions, failedMissions>>]_vars

\* Merlin was named after three succeeded missions
C17_Witness ==
  /\ ret.op = "handleAssassination" /\ ret.ok
  /\ succeededMissions >= 3 /\ failedMissions < 3
  /\ getWinner = "SPY" /\ phase = "GAME_OVER"
\* C18: getWinner changes nothing and is decided by the phase, the recorded
\* target, the connection id of Merlin and the two counters: null whenever
\* the phase is not GAME_OVER (also in ASSASSINATION with 3 succeeded
\* missions); in GAME_OVER it is SPY when the recorded target is Merlin,
\* else RESISTANCE with 3 succeeded missions, else SPY with 3 failed
\* missions, else null.
C18_WinnerTable ==
  [][LET M == {i \in 1..Len(players') : players'[i].specialRole = "MERLIN"}
         hit == \E i \in M : players'[i].id = assassinationTarget'
         expected == IF phase' # "GAME_OVER" THEN ""
                     ELSE IF hit THEN "SPY"
                     ELSE CountersWinner(succeededMissions', failedMissions')
     IN /\ getWinner' = expected
        /\ ret'.op = "getWinner" =>
              /\ ret'.args = <<expected>>
              /\ players' = players /\ RoomButPlayers' = RoomButPlayers]_vars

\* no winner in the ASSASSINATION phase although three missions succeeded
C18_Witness ==
  /\ ret.op = "getWinner" /\ ret.args = <<"">>
  /\ phase = "ASSASSINATION" /\ succeededMissions >= 3
(***************************************************************************)
(* Properties of getGameState                                              *)
(***************************************************************************)
\* C19: getGameState returns null for a durable id that is not in the roster
\* and a view of the room for one that is; it changes no field of the room;
\* the view is the state the state:sync pipeline returned, so it carries the
\* field a registered state:sync callback added (and Merlin's list of spies
\* when the merlin-assassin callback is registered).
C19_ViewOrNull ==
  [][ret'.op = "getGameState" =>
        LET d == ret'.args[1]
            known == d \in RosterPlayerIds
            view == ret'.view
        IN /\ players' = players /\ RoomButPlayers' = RoomButPlayers
           /\ view.found <=> known
           /\ known =>
                 /\ view.player.playerId = d
                 /\ view.phase = phase
                 /\ view.custom <=> Registered("state:sync", "customField")
                 /\ (Registered("state:sync", "merlin-assassin")
                       /\ view.specialRole = "MERLIN") =>
                       view.spies = {players[i].id : i \in
                                       {j \in 1..Len(players) : players[j].role = "SPY"}}]_vars

\* a view with the field of the registered callback, in a started game of
\* two or more players
C19_Witness ==
  /\ ret.op = "getGameState" /\ ret.view.found /\ ret.view.custom
  /\ ret.view.phase = "TEAM_SELECTION" /\ Len(ret.view.players) >= 2
\* the maps with the keys of m whose value at the viewer's own key, if any,
\* is the one of m
SameForViewer(m, viewer) ==
  {m2 \in [DOMAIN m -> BOOLEAN] : viewer \in DOMAIN m => m2[viewer] = m[viewer]}

\* C20: with no expansion, the view of a player is the same in every two
\* rooms that differ only in the values of the votes and of the mission
\* actions the other players recorded; the view lists the connection ids of
\* the players that voted (acted), whatever they submitted.
C20_VoteSecrecy ==
  hooks = NoHooks =>
    \A i \in 1..Len(players) :
      LET viewer == players[i].playerId
          view == GameState(viewer, votes, missionActions)
      IN /\ \A vts \in SameForViewer(votes, viewer),
                 acts \in SameForViewer(missionActions, viewer) :
                GameState(viewer, vts, acts) = view
         /\ view.votedPlayers =
               {players[j].id : j \in {k \in 1..Len(players) :
                                          players[k].playerId \in DOMAIN votes}}
         /\ view.missionActionsSubmitted =
               {players[j].id : j \in {k \in 1..Len(players) :
                                          players[k].playerId \in DOMAIN missionActions}}
         /\ (ret.op = "getGameState" /\ ret.args = <<viewer>>) => ret.view = view

\* a view requested by a player while the two other players have voted, one
\* for and one against, and a mission action is pending
C20_Witness ==
  /\ ret.op = "getGameState" /\ ret.view.found
  /\ ~ret.view.hasVoted
  /\ Cardinality(ret.view.votedPlayers) = 2
  /\ \E a, b \in DOMAIN votes : votes[a] /\ ~votes[b]
  /\ ret.view.missionActionsSubmitted # {}

(***************************************************************************)
(* Properties of the variants                                              *)
(***************************************************************************)
\* C21: the visibility of the spies composes independently of the install
\* order.  With no state:sync callback a SPY viewer's view lists every spy
\* and a RESISTANCE viewer's view has no spies field; with blind-spies no SPY
\* viewer's view has the field; with merlin-assassin the view of Merlin lists
\* every spy; with both, in either registration order, both hold, and the
\* field is the same as under the reversed order.
C21_VisibilityComposes ==
  \A i \in 1..Len(players) :
    LET viewer == players[i]
        view == getGameState(viewer.playerId)
        callbacks == hooks["state:sync"]
        reversed == [k \in 1..Len(callbacks) |-> callbacks[Len(callbacks) + 1 - k]]
        everySpy == {players[j].id : j \in {k \in 1..Len(players) : players[k].role = "SPY"}}
    IN /\ (callbacks = <<>> /\ viewer.role = "SPY") =>
             (view.hasSpies /\ view.spies = everySpy)
       /\ (callbacks = <<>> /\ viewer.role = "RESISTANCE") => ~view.hasSpies
       /\ (Registered("state:sync", "blind-spies") /\ viewer.role = "SPY") =>
             ~view.hasSpies
       /\ (Registered("state:sync", "merlin-assassin")
              /\ viewer.specialRole = "MERLIN") =>
             (view.hasSpies /\ view.spies = everySpy)
       /\ StateSyncSpies(reversed, viewer, SpiesVisible(viewer)) =
             [defined |-> view.hasSpies, ids |-> view.spies]
       /\ (ret.op = "getGameState" /\ ret.args = <<viewer.playerId>>) =>
             ret.view = view

\* Merlin asked for the view in a room of two spies created with blind-spies
\* before merlin-assassin, and got both spies
C21_Witness ==
  /\ ret.op = "getGameState"
  /\ hooks["state:sync"] = <<"blind-spies", "merlin-assassin">>
  /\ ret.view.specialRole = "MERLIN"
  /\ ret.view.hasSpies
  /\ Cardinality(ret.view.spies) = 2

(***************************************************************************)
(* Properties of HookManager.trigger                                       *)
(***************************************************************************)
\* the callbacks that return a context and do not stop the propagation
ReturnsContext == {"increment", "double", "overwrite"}

\* C22: trigger(point, ctx) with no callback registered for the point returns
\* ctx and invokes nothing.  When the callbacks registered for the point all
\* return a context, it invokes exactly these, in registration order (one
\* registered twice runs twice), the first with ctx and each next one with
\* the context the previous one returned, and it returns the context the
\* last one returned; the callbacks of other points are not invoked.
C22_TriggerThreadsContext ==
  ret.op = "trigger" =>
    LET callbacks == hooks[ret.args[1]]
        n == Len(callbacks)
    IN /\ n = 0 => (ret.ctx = ret.context /\ ret.calls = <<>>)
       /\ (n > 0 /\ \A k \in 1..n : callbacks[k] \in ReturnsContext) =>
             /\ Len(ret.calls) = n
             /\ \A k \in 1..n : ret.calls[k].callback = callbacks[k]
             /\ ret.calls[1].received = ret.context
             /\ \A k \in 1..(n - 1) :
                   ret.calls[k + 1].received =
                      Callback(callbacks[k], ret.calls[k].received).ctx
             /\ ret.ctx = Callback(callbacks[n], ret.calls[n].received).ctx
       /\ (callbacks = <<"increment", "double">> /\ ret.context.value = 2) =>
             ret.ctx.value = 6

\* increment, double, double on the value 2 gives 12 while another hook has a
\* callback that would have written 999
C22_Witness ==
  /\ ret.op = "trigger" /\ ret.args = <<"test:hook">>
  /\ hooks["test:hook"] = <<"increment", "double", "double">>
  /\ hooks["stop:hook"] = <<"overwrite">>
  /\ ret.context.value = 2 /\ ret.ctx.value = 12
  /\ Len(ret.calls) = 3

\* C23: when the context a callback returned has stopPropagation set, trigger
\* invokes none of the callbacks registered after it and returns exactly
\* that context.
C23_StopPropagation ==
  ret.op = "trigger" =>
    LET callbacks == hooks[ret.args[1]] IN
    /\ Len(ret.calls) <= Len(callbacks)
    /\ \A k \in 1..Len(ret.calls) :
          LET out == Callback(ret.calls[k].callback, ret.calls[k].received) IN
          /\ ret.calls[k].callback = callbacks[k]
          /\ (~out.threw /\ out.ctx.defined /\ out.ctx.stopPropagation) =>
                (Len(ret.calls) = k /\ ret.ctx = out.ctx)

\* the second of three callbacks stopped the propagation: the third, which
\* would have written 999, was not invoked
C23_Witness ==
  /\ ret.op = "trigger"
  /\ hooks[ret.args[1]] = <<"increment", "stop", "overwrite">>
  /\ Len(ret.calls) = 2
  /\ ret.ctx.stopPropagation /\ ret.ctx.value = 1

\* the callbacks that fail: one throws or rejects, one returns no context
Failing == {"throws", "returnsNothing"}

\* C24: failure isolation.  When no callback of the point stops the
\* propagation, every registered callback is invoked although some fail,
\* the callback after a failing one receives the context the failing one
\* received, and trigger returns a context (the one the last callback
\* received when that one failed).
C24_FailureIsolation ==
  ret.op = "trigger" =>
    LET callbacks == hooks[ret.args[1]]
        n == Len(callbacks)
    IN (\A k \in 1..n : callbacks[k] \in ReturnsContext \cup Failing) =>
         /\ Len(ret.calls) = n
         /\ \A k \in 1..(n - 1) :
               callbacks[k] \in Failing =>
                  ret.calls[k + 1].received = ret.calls[k].received
         /\ (n > 0 /\ callbacks[n] \in Failing) => ret.ctx = ret.calls[n].received
         /\ ret.ctx.defined


(***************************************************************************)
(* Properties of GameManager.createRoom                                    *)
(***************************************************************************)
\* the hooks an expansion registers a callback for
HooksOf(id) ==
  CASE id = "merlin-assassin" -> {"roles:assign", "mission:resolve", "state:sync"}
    [] id = "inquisidor" -> {"game:start", "mission:resolve", "state:sync"}
    [] id = "blind-spies" -> {"state:sync"}
    [] OTHER -> {}

\* C25: session isolation.  Whatever rooms the GameManager created, the
\* pipeline of a room holds the callbacks of the room's own variants exactly
\* once and no callback of a variant the room was not created with; a room
\* created without merlin-assassin never reaches ASSASSINATION, and a room
\* created without inquisidor never reaches INQUISITOR_INVESTIGATION and
\* gets no inquisitorState.
C25_SessionIsolation ==
  /\ "merlin-assassin" \notin expansions => phase # "ASSASSINATION"
  /\ "inquisidor" \notin expansions =>
        (phase # "INQUISITOR_INVESTIGATION" /\ ~inquisitorState.defined)
  /\ \A id \in AVAILABLE_EXPANSIONS, hookName \in HookNames :
        Cardinality({k \in 1..Len(hooks[hookName]) : hooks[hookName][k] = id}) =
           IF id \in expansions /\ hookName \in HooksOf(id) THEN 1 ELSE 0

(***************************************************************************)
(* Properties of resetGame                                                 *)
(***************************************************************************)
\* C26: after resetGame, from any state, the counters and the rejection
\* streak are 0, the history, the team and the pending maps are empty, the
\* target is null, the roster holds the same players in the same order, the
\* phase is TEAM_SELECTION, every player has a role and exactly one player
\* is leader; a game:reset callback runs on the stripped roster, before the
\* new roles are assigned.
C26_ResetContract ==
  [][ret'.op = "resetGame" =>
        /\ succeededMissions' = 0 /\ failedMissions' = 0
        /\ currentMissionIndex' = 0 /\ voteRejections' = 0
        /\ missionHistory' = <<>> /\ selectedTeam' = <<>>
        /\ votes' = EmptyMap /\ missionActions' = EmptyMap
        /\ assassinationTarget' = ""
        /\ Len(players') = Len(players)
        /\ \A i \in 1..Len(players) :
              /\ players'[i].id = players[i].id
              /\ players'[i].playerId = players[i].playerId
              /\ players'[i].role \in {"SPY", "RESISTANCE"}
        /\ phase' = "TEAM_SELECTION"
        /\ Cardinality({i \in 1..Len(players') : players'[i].isLeader}) = 1
        /\ Registered("game:reset", "observer") =>
              (ret'.seen.called /\ ret'.seen.roles \subseteq {"undefined"}
                 /\ ret'.seen.leaders = {})]_vars

(***************************************************************************)
(* Properties of the inquisidor expansion                                  *)
(***************************************************************************)
\* C27: an investigation of the connection id target by the connection id
\* caller succeeds iff the caller is in the roster and its durable id is the
\* token holder, the target is in the roster and is not the caller, and the
\* durable id of the target is not the last investigated one.  On success
\* the token holder and the last investigated become the durable id of the
\* target, one entry (investigator, target) is appended to the history and
\* the role of the target is emitted to the caller alone (the broadcast names
\* connection ids only); otherwise the inquisitor state is unchanged and no
\* role is emitted.  Nothing else of the room changes.
C27_InvestigateContract ==
  [][ret'.op = "investigate" =>
        LET caller == ret'.args[1]
            target == ret'.args[2]
            i == getPlayer(caller)
            t == getPlayer(target)
            valid == /\ i # 0
                     /\ players[i].playerId = inquisitorState.tokenHolder
                     /\ t # 0
                     /\ target # caller
                     /\ players[t].playerId # inquisitorState.lastInvestigated
        IN /\ ret'.ok <=> valid
           /\ valid =>
                 /\ inquisitorState'.tokenHolder = players[t].playerId
                 /\ inquisitorState'.lastInvestigated = players[t].playerId
                 /\ inquisitorState'.investigationHistory =
                       Append(inquisitorState.investigationHistory,
                              [investigator |-> players[i].playerId,
                               target |-> players[t].playerId])
                 /\ ret'.revealed.to = caller
                 /\ ret'.revealed.role = players[t].role
                 /\ ret'.broadcast =
                       [newTokenHolder |-> target, investigatedPlayer |-> target]
           /\ ~valid =>
                 /\ inquisitorState' = inquisitorState
                 /\ ret'.revealed = NoReveal /\ ret'.broadcast = NoBroadcast
           /\ players' = players
           /\ <<phase, selectedTeam, votes, missionActions, succeededMissions,
                 failedMissions, currentLeaderIndex>>' =
              <<phase, selectedTeam, votes, missionActions, succeededMissions,
                failedMissions, currentLeaderIndex>>]_vars

\* the second investigation of a game: the player investigated first passed
\* the token on, from a connection id it got by reconnecting
C27_Witness ==
  /\ ret.op = "investigate" /\ ret.ok
  /\ Len(inquisitorState.investigationHistory) = 2
  /\ ret.revealed.role \in {"SPY", "RESISTANCE"}
  /\ ret.args[1] = "s3"
  /\ Len(players) = 2

(***************************************************************************)
(* Invariants of the room while players join and leave                     *)
(***************************************************************************)
\* C28: whenever the phase is VOTE or MISSION, the selected team has the
\* size configured for the current roster size and mission index, also
\* after players joined or left in these phases.
C28_TeamSizeMatches ==
  phase \in {"VOTE", "MISSION"} => Len(selectedTeam) = getCurrentMissionSize

\* C29: whenever the roster is not empty, the leader index is a position of
\* the roster, also after the player at the last position left.
C29_LeaderIndexInRange ==
  Len(players) > 0 => currentLeaderIndex \in 0..(Len(players) - 1)

\* C30: every key of the pending votes and of the pending mission actions is
\* the durable id of a player of the current roster.
C30_PendingKeysInRoster ==
  /\ DOMAIN votes \subseteq RosterPlayerIds
  /\ DOMAIN missionActions \subseteq RosterPlayerIds

(***************************************************************************)
(* Properties of the counters and of the end of the game                   *)
(***************************************************************************)
\* C31: in every reachable state succeededMissions + failedMissions <= 5 and
\* currentMissionIndex <= 4, also after a rejection penalty and after
\* tallyVotes and resolveMission calls made once a counter has reached 3.
C31_CountersBounded ==
  /\ succeededMissions + failedMissions <= 5
  /\ currentMissionIndex <= 4

\* the operations that are not resetGame and not startGame
PlayOperations ==
  {"selectTeam", "submitVote", "tallyVotes", "submitMissionAction",
   "resolveMission", "handleAssassination", "reconnectPlayer", "addPlayer",
   "removePlayer", "endInvestigation"}

\* C32: GAME_OVER is terminal.  Once the phase is GAME_OVER, no operation
\* other than resetGame (selectTeam, submitVote, tallyVotes,
\* submitMissionAction, resolveMission, handleAssassination, reconnectPlayer,
\* addPlayer, removePlayer, endInvestigation) changes the phase or the value
\* returned by getWinner.
C32_GameOverTerminal ==
  [][phase = "GAME_OVER" /\ ret'.op \in PlayOperations
       => /\ phase' = "GAME_OVER"
          /\ getWinner' = getWinner]_vars

C34_InvestigationPhase ==
  [][/\ ret'.op = "resolveMission"
          => IF succeededMissions' < 3 /\ failedMissions' < 3
             THEN /\ phase' = "INQUISITOR_INVESTIGATION"
                  /\ currentMissionIndex' = currentMissionIndex + 1
                  /\ currentLeaderIndex' = currentLeaderIndex
                  /\ players' = players
             ELSE /\ phase' = IF "merlin-assassin" \in expansions
                                 /\ succeededMissions' >= 3
                              THEN "ASSASSINATION" ELSE "GAME_OVER"
                  /\ currentMissionIndex' = currentMissionIndex
     /\ ret'.op = "endInvestigation" /\ phase = "INQUISITOR_INVESTIGATION"
          => /\ phase' = "TEAM_SELECTION"
             /\ currentLeaderIndex' = (currentLeaderIndex + 1) % Len(players)
             /\ players' = UpdateLeader(players, currentLeaderIndex')
             /\ currentMissionIndex' = currentMissionIndex
             /\ ret'.ok /\ ~ret'.threw
     /\ ret'.op = "endInvestigation" /\ phase # "INQUISITOR_INVESTIGATION"
          => /\ UNCHANGED <<players, RoomButPlayers>>
             /\ ~ret'.ok]_vars

\* an investigation ended after the second mission of a room that has both
\* expansions, merlin-assassin installed first
C34_Witness ==
  /\ ret.op = "endInvestigation"
  /\ ret.ok
  /\ phase = "TEAM_SELECTION"
  /\ currentMissionIndex = 2
  /\ hooks["mission:resolve"] = <<"merlin-assassin", "inquisidor">>
  /\ \E i \in 1..Len(players) : players[i].isLeader

(***************************************************************************)
(* Properties of the calls that wait in a pipeline                         *)
(***************************************************************************)
\* the step took place before the i-th step of the waiting call
DoneBefore(step, i) ==
  \E j \in 1..(i - 1) : suspended.events[j] = step

\* C35: startGame drains its extension points in order before it resumes.
\* All game:start callbacks complete before the room assigns any role, the
\* base roles are assigned before the first roles:assign callback runs, and
\* all roles:assign callbacks, any number of them, have completed before the
\* phase becomes TEAM_SELECTION and before the result of startGame is
\* delivered to the caller.
C35_StartGameDrainsInOrder ==
  \A i \in 1..Len(suspended.events) :
    LET step == suspended.events[i] IN
    /\ step = StepDone("roles")
         => \A k \in 1..Len(hooks["game:start"]) :
               DoneBefore(CallbackDone("game:start", k), i)
    /\ step.step = "callback" /\ step.hook = "roles:assign"
         => DoneBefore(StepDone("roles"), i)
    /\ step \in {StepDone("phase"), StepDone("result")}
         => \A k \in 1..Len(hooks["roles:assign"]) :
               DoneBefore(CallbackDone("roles:assign", k), i)

\* the waiting call of the room is over in this step
CallOver == suspended.op # "none" /\ suspended'.op = "none"

\* C36: a getGameState that runs while a resolveMission or a startGame of
\* the room waits in its pipeline never observes a torn state: every view it
\* returns equals the view of the room before the call or the view after it.
C36_NoTornView ==
  [][CallOver =>
       \A view \in suspended.seen :
          \/ view = suspended.before
          \/ \E requestingPlayerId \in {PlayerIdName[1]} :
                view = getGameState(requestingPlayerId)']_vars

(***************************************************************************)
(* Properties of the elimination sub-game                                  *)
(***************************************************************************)
\* the recorded target identifies the player that holds Merlin
TargetIsMerlin ==
  \E i \in 1..Len(players) :
    /\ players[i].specialRole = "MERLIN"
    /\ players[i].id = assassinationTarget

\* C37: the outcome of the elimination sub-game is stable under
\* reconnection.  Once handleAssassination has been called, neither the value
\* of getWinner() nor whether the recorded target identifies Merlin is changed
\* by a later reconnectPlayer of any player or by a later addPlayer.
C37_OutcomeStable ==
  [][assassinationTarget # "" /\ ret'.op \in {"reconnectPlayer", "addPlayer"}
       => /\ getWinner' = getWinner
          /\ TargetIsMerlin' = TargetIsMerlin]_vars

(***************************************************************************)
(* Role secrecy of the view                                                *)
(***************************************************************************)
\* the room before and the room after the step differ only in the roles and
\* the special roles of players other than the i-th
DifferInOtherRolesOnly(i) ==
  /\ RoomButPlayers' = RoomButPlayers
  /\ Len(players') = Len(players)
  /\ players'[i] = players[i]
  /\ players' # players
  /\ \A j \in 1..Len(players) :
        [players'[j] EXCEPT !.role = players[j].role,
                            !.specialRole = players[j].specialRole] = players[j]

\* C38: role secrecy of the base view.  With no variants installed, the view
\* returned to a RESISTANCE viewer exposes only public fields of the other
\* players: two states of the room that differ only in which of the other
\* players are SPY (and in their special roles) give the viewer identical
\* views in every phase before GAME_OVER, whoever the current leader is.
C38_RoleSecrecy ==
  [][\A i \in 1..Len(players) :
        /\ expansions = {}
        /\ phase # "GAME_OVER"
        /\ players[i].role = "RESISTANCE"
        /\ DifferInOtherRolesOnly(i)
        => \E requestingPlayerId \in {players[i].playerId} :
              getGameState(requestingPlayerId)' = getGameState(requestingPlayerId)]_vars

(***************************************************************************)
(* Properties of the token of the inquisidor expansion                     *)
(***************************************************************************)
\* the last successful investigation of the game, if any
LastInvestigation ==
  inquisitorState.investigationHistory[Len(inquisitorState.investigationHistory)]

\* the i-th player, who received the token in the last investigation, asks
\* to investigate the t-th player, who investigated them
InvestigatesBack(i, t) ==
  /\ inquisitorState.defined
  /\ inquisitorState.investigationHistory # <<>>
  /\ players[i].playerId = LastInvestigation.target
  /\ players[t].playerId = LastInvestigation.investigator
  /\ ret'.op = "investigate"
  /\ ret'.args = <<players[i].id, players[t].id>>

\* C39: in every reachable state of the investigation variant
\* lastInvestigated is either null or equal to tokenHolder, and consequently
\* the player who just received the token can always investigate the player
\* who investigated them.
C39_LastInvestigatedIsHolder ==
  /\ [](inquisitorState.defined
          => inquisitorState.lastInvestigated \in {"", inquisitorState.tokenHolder})
  /\ [][\A i, t \in 1..Len(players) : InvestigatesBack(i, t) => ret'.ok]_vars

\* the player who received the token investigated the investigator back
C39_Witness ==
  /\ ret.op = "investigate"
  /\ ret.ok
  /\ Len(inquisitorState.investigationHistory) = 2
  /\ inquisitorState.investigationHistory[2].investigator
       = inquisitorState.investigationHistory[1].target
  /\ inquisitorState.investigationHistory[2].target
       = inquisitorState.investigationHistory[1].investigator
  /\ inquisitorState.lastInvestigated = inquisitorState.tokenHolder
  /\ inquisitorState.tokenHolder # ""

(***************************************************************************)
(* Properties of a whole game                                              *)
(***************************************************************************)
\* the tallyVotes calls of the game so far: the rejected ones and the
\* approved ones, one per mission that was resolved or is under way
TalliesSoFar ==
  rejectedTallies + Len(missionHistory) + (IF phase = "MISSION" THEN 1 ELSE 0)

\* C40: every game ends.  For a fixed roster of 1..20 players and no
\* variants, when the operations follow the protocol, the phase reaches
\* GAME_OVER with a non-null winner after at most 9 tallyVotes calls (at most
\* 5 resolved missions and at most 5 rejections), and in every TEAM_SELECTION
\* state met on the way the mission index is in 0..4 and the configured team
\* size is positive.
C40_EveryGameEnds ==
  /\ <>(phase = "GAME_OVER" /\ getWinner # "")
  /\ [](/\ TalliesSoFar <= 9
        /\ Len(missionHistory) <= 5
        /\ rejectedTallies <= MAX_REJECTIONS
        /\ phase = "TEAM_SELECTION"
             => /\ currentMissionIndex \in 0..4
                /\ getCurrentMissionSize > 0)

\* a game of 20 players that ended after 9 tallies: 4 proposals were
\* rejected and the fifth mission decided it
C40_Witness ==
  /\ Len(players) = MAX_PLAYERS
  /\ phase = "GAME_OVER"
  /\ getWinner # ""
  /\ ret.op = "resolveMission"
  /\ Len(missionHistory) = 5
  /\ rejectedTallies = 4
  /\ TalliesSoFar = 9

====
